---- MODULE Spec2Model ----
(***************************************************************************)
(* Fetch engine of lead-gen-pipeline: the domain rate limiter and the     *)
(* retry decorator of lead_gen_pipeline/utils.py and the robots cache and *)
(* fetch orchestration of lead_gen_pipeline/crawler.py.                   *)
(*                                                                         *)
(* The program is single-threaded asyncio: a task runs without            *)
(* interruption from one suspension point (an await that really blocks)   *)
(* to the next.  Every action below is one such run of one task.          *)
(* Time is counted in ticks of half a second of the monotonic clock.      *)
(***************************************************************************)
EXTENDS Integers, Sequences, FiniteSets, TLC

\* ---------------------------------------------------------------- bounds
NumTasks == 3           \* concurrent callers
MaxTime == 3            \* the clock stops here
MaxStartTime == 2       \* time.monotonic() at startup is 0..MaxStartTime
MaxCeiling == 2         \* MAX_CONCURRENT_REQUESTS_PER_DOMAIN is 1..MaxCeiling
MaxBudget == 2          \* max_retries_override is 0..MaxBudget

\* --------------------------- configuration values (config.py), scaled down
MIN_DELAY_PER_DOMAIN_SECONDS == 1   \* 0.5 s
MAX_DELAY_PER_DOMAIN_SECONDS == 2   \* 1.0 s
MAX_RETRIES == 1
ROBOTS_TXT_CACHE_SIZE == 2

\* ------------------------------- defaults of async_retry (utils.py:71-76)
delay_seconds == 2                  \* 1.0 s
backoff_factor == 2
jitter_factor_num == 1              \* jitter_factor = 0.5 = 1/2
jitter_factor_den == 2

Tasks == 1..NumTasks
Domains == {"a.com", "b.com", "c.com"}
LimiterDomains == {"a.com", "b.com"}
Paths == {"/public/x", "/private/x"}
NoTask == 0
NoDomain == "none"
\* a URL that starts with http:// and that urlparse rejects
MalformedUrl == "malformed"
None == -1              \* max_retries_override=None
NoResult == [body |-> "none", status |-> -1, url |-> "none"]

VARIABLES
    MAX_CONCURRENT_REQUESTS_PER_DOMAIN, \* the setting, fixed at startup
    RESPECT_ROBOTS_TXT, \* the setting, fixed at startup
    robotsTxt,          \* environment: what each domain serves as robots.txt
    max_retries_override, \* the decorator argument of the function each task calls
    now,                \* time.monotonic()
    domainSemaphores,   \* DomainRateLimiter._domain_semaphores: domain -> value
    domainLockHolder,   \* DomainRateLimiter._domain_locks: the holder, or NoTask
    lastRequestTime,    \* DomainRateLimiter._last_request_time
    prevRequestTime,    \* history: the value lastRequestTime had before the last write
    recorded,           \* history: writes of lastRequestTime by acquire, counted up to 2
    permits,            \* history: permits the task took and has not released
    taken,              \* history: a fetch_page call took a permit
    registryLockExists, \* the crawler has the attribute _registry_lock
    robotsCache,        \* AsyncWebCrawler._robots_parsers_cache, oldest first
    robotsFetchLocks,   \* keys of AsyncWebCrawler._robots_fetch_locks
    robotsLockHolder,   \* the holder of each robots fetch lock of the table, or NoTask
    dropped,            \* the tasks whose domain_fetch_lock close() took out of the table
    robotsFetches,      \* history: calls of _fetch_and_parse_robots_txt per domain
    useOrder,           \* history: the domains in the order of their last use
    insertOrder,        \* history: the domains in the order of their last insertion
    verdict,            \* history: outcome of the task's latest robots check
    wasAllowed,         \* history: some robots check of the call allowed the URL
    pc,                 \* where each task is suspended
    wakeAt,             \* when the task's asyncio.sleep is due
    result,             \* what the task's call returned or raised
    sleeps,             \* history: backoff sleeps of the call
    lastError,          \* history: the exception the latest invocation raised
    entry,              \* the call each task makes
    dom,                \* the domain of the task's call
    path,               \* the path of the URL of the task's call
    usePlaywright,      \* the strategy of the task's call
    attempt,            \* async_retry.wrapper: the loop variable
    budget,             \* async_retry.wrapper: current_max_retries
    currentDelay,       \* async_retry.wrapper: current_delay
    invocations,        \* history: invocations of the wrapped function
    playwright_instance, \* AsyncWebCrawler._playwright_instance, or None
    browser,            \* AsyncWebCrawler._browser, or None
    connectedBrowsers,  \* the launched browsers whose is_connected() is true
    instancesStarted,   \* history: playwright instances that were started
    usedBrowser,        \* the browser the task's call got hold of, to use or to close
    context,            \* _fetch_with_playwright: its local "context" is set
    pending,            \* _fetch_with_playwright: what its finally clause will let through
    contextsOpened,     \* history: browser contexts the task's call created
    contextsClosed,     \* history: browser contexts the task's call closed
    shutdowns,          \* history: calls of close_playwright_resources
    fetched,            \* history: the triple the strategy returned to the fetch chain
    httpsStatus,        \* history, kept for the direct callers of _get_robots_parser: the status
                        \* that answered the HTTPS request of the call's cache miss
    limiterRegistryHolder, \* DomainRateLimiter._registry_lock: the holder, or NoTask
    crawlerRegistryHolder  \* AsyncWebCrawler._registry_lock: the holder, or NoTask

settingVars == <<MAX_CONCURRENT_REQUESTS_PER_DOMAIN, RESPECT_ROBOTS_TXT, robotsTxt,
                 max_retries_override>>
clockVars == <<now>>
limiterVars == <<domainSemaphores, domainLockHolder, lastRequestTime,
                 prevRequestTime, recorded, permits, taken>>
robotsVars == <<registryLockExists, robotsCache, robotsFetchLocks,
                robotsLockHolder, dropped, robotsFetches, useOrder, insertOrder>>
verdictVars == <<verdict, wasAllowed>>
outcomeVars == <<pc, wakeAt, result, sleeps, lastError>>
callVars == <<entry, dom, path, usePlaywright, attempt, budget, currentDelay,
              invocations>>
browserVars == <<playwright_instance, browser, connectedBrowsers,
                 instancesStarted, usedBrowser>>
contextVars == <<context, pending, contextsOpened, contextsClosed>>
closeVars == <<shutdowns>>
inspectVars == <<fetched>>
requestVars == <<httpsStatus>>
registryVars == <<limiterRegistryHolder, crawlerRegistryHolder>>
vars == <<settingVars, clockVars, limiterVars, robotsVars, verdictVars,
          outcomeVars, callVars, browserVars, contextVars, closeVars,
          inspectVars, requestVars, registryVars>>

\* ========================================================== registry locks
\* variant: the block is left with the lock still held
AfterRegistryBlock_StillHeld(holder, t) == t

\* "async with self._registry_lock:" around statements without an await:
\* asyncio.Lock.acquire takes a free lock without suspending and the exit
\* gives it back, so the holder after the block is the holder before it
AfterRegistryBlock(holder, t) ==
    IF holder = NoTask THEN NoTask ELSE holder

\* the registry-lock blocks the step of task t went through: the limiter's
\* when the step created the slot of a domain, the crawler's when it put a
\* fetch lock into the table or cleared the tables
RegistryBlocks(t) ==
    /\ limiterRegistryHolder' =
            IF DOMAIN domainSemaphores' # DOMAIN domainSemaphores
            THEN AfterRegistryBlock(limiterRegistryHolder, t)
            ELSE limiterRegistryHolder
    /\ crawlerRegistryHolder' =
            IF robotsFetchLocks' # robotsFetchLocks
                \/ (robotsCache' = << >> /\ robotsCache # << >>)
            THEN AfterRegistryBlock(crawlerRegistryHolder, t)
            ELSE crawlerRegistryHolder

\* ============================================================ rate limiter
\* utils.py, class DomainRateLimiter

\* tasks queued on asyncio.Semaphore.acquire / asyncio.Lock.acquire of d
SemWaiters(d) == {t \in Tasks : pc[t] = "sem_wait" /\ dom[t] = d}
LockWaiters(d) == {t \in Tasks : pc[t] = "lock_wait" /\ dom[t] = d}

\* variant: every acquire makes a new semaphore for the domain
SemaphoreOf_AlwaysNew(d) == MAX_CONCURRENT_REQUESTS_PER_DOMAIN

\* _get_or_create_domain_specific_resources: the value of the semaphore of
\* d once the slot exists (created with the configured ceiling)
SemaphoreOf(d) ==
    IF d \notin DOMAIN domainSemaphores
    THEN MAX_CONCURRENT_REQUESTS_PER_DOMAIN
    ELSE domainSemaphores[d]

\* the table of semaphores with the value of d's set to v
WithSemaphore(d, v) ==
    [x \in DOMAIN domainSemaphores \cup {d} |->
        IF x = d THEN v ELSE domainSemaphores[x]]

\* "if min_delay > max_delay: min_delay = max_delay"
EffectiveMinDelay ==
    IF MIN_DELAY_PER_DOMAIN_SECONDS > MAX_DELAY_PER_DOMAIN_SECONDS
    THEN MAX_DELAY_PER_DOMAIN_SECONDS
    ELSE MIN_DELAY_PER_DOMAIN_SECONDS

\* random.uniform(min_delay, max_delay)
RequiredDelays == EffectiveMinDelay..MAX_DELAY_PER_DOMAIN_SECONDS

\* acquire has returned: a direct caller is inside its "async with" block,
\* fetch_page_content_with_retry awaits its fetch strategy
AfterAcquire(t) ==
    pc' = [pc EXCEPT ![t] = IF entry[t] = "acquire" THEN "holding" ELSE "fetching"]

\* variant: acquire returns with the domain lock still held
RecordAndReturn_KeepsLock(t, d) ==
    /\ lastRequestTime' = [lastRequestTime EXCEPT ![d] = now]
    /\ prevRequestTime' = [prevRequestTime EXCEPT ![d] = lastRequestTime[d]]
    /\ recorded' = [recorded EXCEPT ![d] = IF @ < 2 THEN @ + 1 ELSE @]
    /\ domainLockHolder' = [domainLockHolder EXCEPT ![d] = t]
    /\ AfterAcquire(t)
    /\ wakeAt' = [wakeAt EXCEPT ![t] = 0]

\* "self._last_request_time[domain] = time.monotonic()", leaving the
\* "async with domain_access_lock" block, acquire returns
RecordAndReturn(t, d) ==
    /\ lastRequestTime' = [lastRequestTime EXCEPT ![d] = now]
    /\ prevRequestTime' = [prevRequestTime EXCEPT ![d] = lastRequestTime[d]]
    /\ recorded' = [recorded EXCEPT ![d] = IF @ < 2 THEN @ + 1 ELSE @]
    /\ domainLockHolder' = [domainLockHolder EXCEPT ![d] = NoTask]
    /\ AfterAcquire(t)
    /\ wakeAt' = [wakeAt EXCEPT ![t] = 0]

\* variant: the lock is given back before the sleep
DelaySection_SleepsUnlocked(t, d) ==
    \E required_delay \in RequiredDelays :
        LET time_since_last == now - lastRequestTime[d] IN
        IF time_since_last < required_delay
        THEN /\ domainLockHolder' = [domainLockHolder EXCEPT ![d] = NoTask]
             /\ pc' = [pc EXCEPT ![t] = "rate_sleep"]
             /\ wakeAt' = [wakeAt EXCEPT ![t] = now + (required_delay - time_since_last)]
             /\ UNCHANGED <<lastRequestTime, prevRequestTime, recorded>>
        ELSE RecordAndReturn(t, d)

\* the body of "async with domain_access_lock", entered with the lock taken
DelaySection(t, d) ==
    \E required_delay \in RequiredDelays :
        LET time_since_last == now - lastRequestTime[d] IN
        IF time_since_last < required_delay
        THEN /\ domainLockHolder' = [domainLockHolder EXCEPT ![d] = t]
             /\ pc' = [pc EXCEPT ![t] = "rate_sleep"]
             /\ wakeAt' = [wakeAt EXCEPT ![t] = now + (required_delay - time_since_last)]
             /\ UNCHANGED <<lastRequestTime, prevRequestTime, recorded>>
        ELSE RecordAndReturn(t, d)

\* variant: one lock for all domains
EnterLock_OneLock(t, d) ==
    IF (\A x \in Domains : domainLockHolder[x] = NoTask) /\ LockWaiters(d) = {}
    THEN DelaySection(t, d)
    ELSE /\ pc' = [pc EXCEPT ![t] = "lock_wait"]
         /\ UNCHANGED <<domainLockHolder, lastRequestTime, prevRequestTime,
                        recorded, wakeAt>>

\* variant: the delay section is entered without taking the domain lock
EnterLock_NoLock(t, d) ==
    DelaySection(t, d)

\* "async with domain_access_lock": asyncio.Lock.acquire returns at once
\* when the lock is free and nobody is queued, else the task is queued
EnterLock(t, d) ==
    IF domainLockHolder[d] = NoTask /\ LockWaiters(d) = {}
    THEN DelaySection(t, d)
    ELSE /\ pc' = [pc EXCEPT ![t] = "lock_wait"]
         /\ UNCHANGED <<domainLockHolder, lastRequestTime, prevRequestTime,
                        recorded, wakeAt>>

\* "await domain_semaphore.acquire()" has taken a permit
TakePermit(t, d) ==
    /\ domainSemaphores' = WithSemaphore(d, SemaphoreOf(d) - 1)
    /\ permits' = [permits EXCEPT ![t] = @ + 1]
    /\ taken' = [taken EXCEPT ![t] = @ \/ entry[t] = "fetch_page"]

\* variant: acquire goes on without waiting for a permit
AcquireBegin_NoCeiling(t, d) ==
    /\ TakePermit(t, d)
    /\ EnterLock(t, d)

\* DomainRateLimiter.acquire from its first line to its first suspension
AcquireBegin(t, d) ==
    IF SemaphoreOf(d) > 0 /\ SemWaiters(d) = {}
    THEN /\ TakePermit(t, d)
         /\ EnterLock(t, d)
    ELSE /\ domainSemaphores' = WithSemaphore(d, SemaphoreOf(d))
         /\ pc' = [pc EXCEPT ![t] = "sem_wait"]
         /\ UNCHANGED <<permits, taken, domainLockHolder, lastRequestTime,
                        prevRequestTime, recorded, wakeAt>>

\* a caller enters "async with await limiter.wait_for_domain(d)"
WaitForDomain(t, d) ==
    /\ pc[t] = "idle"
    /\ entry[t] = "acquire"
    /\ dom' = [dom EXCEPT ![t] = d]
    /\ AcquireBegin(t, d)
    /\ UNCHANGED <<browserVars, contextVars, closeVars, inspectVars, requestVars, settingVars, clockVars, robotsVars, verdictVars, result, sleeps, lastError,
                   entry, path, usePlaywright, attempt, budget, currentDelay,
                   invocations>>
    /\ RegistryBlocks(t)

\* "await domain_semaphore.acquire()" returns to a queued task
SemaphoreGranted(t) ==
    /\ pc[t] = "sem_wait"
    /\ SemaphoreOf(dom[t]) > 0
    /\ TakePermit(t, dom[t])
    /\ EnterLock(t, dom[t])
    /\ UNCHANGED <<browserVars, contextVars, closeVars, inspectVars, requestVars, registryVars, settingVars, clockVars, robotsVars, verdictVars, result, sleeps, lastError,
                   callVars>>

\* the domain lock is handed to a queued task
LockGranted(t) ==
    /\ pc[t] = "lock_wait"
    /\ domainLockHolder[dom[t]] = NoTask
    /\ DelaySection(t, dom[t])
    /\ UNCHANGED <<browserVars, contextVars, closeVars, inspectVars, requestVars, registryVars, settingVars, clockVars, robotsVars, verdictVars, result, sleeps, lastError,
                   callVars, domainSemaphores, permits, taken>>

\* "await asyncio.sleep(sleep_duration)" is over
RateSleepOver(t) ==
    /\ pc[t] = "rate_sleep"
    /\ now >= wakeAt[t]
    /\ RecordAndReturn(t, dom[t])
    /\ UNCHANGED <<browserVars, contextVars, closeVars, inspectVars, requestVars, registryVars, settingVars, clockVars, robotsVars, verdictVars, result, sleeps, lastError,
                   callVars, domainSemaphores, permits, taken>>

\* DomainRateLimiter.release
ReleaseSemaphore(d) ==
    IF d \in DOMAIN domainSemaphores
    THEN [domainSemaphores EXCEPT ![d] = @ + 1]
    ELSE domainSemaphores

\* DomainRateLimiterContextManager.__aexit__ of a direct caller
LeaveDomain(t) ==
    /\ pc[t] = "holding"
    /\ entry[t] = "acquire"
    /\ domainSemaphores' = ReleaseSemaphore(dom[t])
    /\ permits' = [permits EXCEPT ![t] = @ - 1]
    /\ pc' = [pc EXCEPT ![t] = "idle"]
    /\ dom' = [dom EXCEPT ![t] = NoDomain]
    /\ UNCHANGED <<browserVars, contextVars, closeVars, inspectVars, requestVars, registryVars, settingVars, clockVars, robotsVars, verdictVars, wakeAt, result,
                   sleeps, lastError, domainLockHolder, lastRequestTime, prevRequestTime,
                   recorded, taken, entry, path, usePlaywright, attempt, budget,
                   currentDelay, invocations>>

\* the monotonic clock advances
Tick ==
    /\ now < MaxTime
    /\ now' = now + 1
    /\ UNCHANGED <<browserVars, contextVars, closeVars, inspectVars, requestVars, registryVars, settingVars, limiterVars, robotsVars, verdictVars,
                   outcomeVars, callVars>>

\* the clock goes on past MaxTime for as long as a task is inside
\* "await asyncio.sleep(sleep_duration)" of acquire: the timer of a sleep
\* that has begun always runs out
SleepElapses ==
    /\ now >= MaxTime
    /\ \E t \in Tasks : pc[t] = "rate_sleep" /\ wakeAt[t] > now
    /\ now' = now + 1
    /\ UNCHANGED <<browserVars, contextVars, closeVars, inspectVars, requestVars, registryVars, settingVars, limiterVars, robotsVars, verdictVars,
                   outcomeVars, callVars>>

\* =========================================================== retry wrapper
\* utils.py, async_retry

Err(k) == [kind |-> k, status |-> 0]
NoError == Err("none")
StatusErr(code) == [kind |-> "HTTPStatusError", status |-> code]

\* the classes an exception kind is an instance of (httpx, playwright and
\* builtin hierarchies)
ClassesOf(kind) ==
    {kind, "Exception"} \cup
    (IF kind = "TimeoutException" THEN {"RequestError"} ELSE {}) \cup
    (IF kind = "PlaywrightTimeoutError" THEN {"PlaywrightBaseError"} ELSE {})

\* variant: the tuple without the HTTP status error
FetchRetryExceptions_NoStatus ==
    {"TimeoutException", "RequestError",
     "PlaywrightBaseError", "RobotsTxtDisallowedError", "RuntimeError"}

\* variant: the tuple without the transport errors and timeouts
FetchRetryExceptions_NoTransport ==
    {"HTTPStatusError", "PlaywrightBaseError", "RobotsTxtDisallowedError",
     "RuntimeError"}

\* variant: the tuple without the browser errors
FetchRetryExceptions_NoBrowser ==
    {"HTTPStatusError", "TimeoutException", "RequestError",
     "RobotsTxtDisallowedError", "RuntimeError"}

\* the exceptions tuple of the decorator: the one put on
\* fetch_page_content_with_retry, and the one of a plain wrapped operation
FetchRetryExceptions ==
    {"HTTPStatusError", "TimeoutException", "RequestError",
     "PlaywrightBaseError", "RobotsTxtDisallowedError", "RuntimeError"}
RetryExceptions(t) ==
    IF entry[t] = "fetch_page" THEN FetchRetryExceptions
    ELSE {"CustomRetryException"}

\* variant: "except Exception as e", whatever the exceptions tuple
Caught_Everything(t, e) ==
    "Exception" \in ClassesOf(e.kind)

\* "except exceptions as e" matches
Caught(t, e) == ClassesOf(e.kind) \cap RetryExceptions(t) # {}

\* "jitter = random.uniform(-jitter_factor, jitter_factor) * current_delay;
\*  actual_sleep_time = max(0, current_delay + jitter)"
SleepTimes(current_delay) ==
    LET J == (current_delay * jitter_factor_num) \div jitter_factor_den
    IN  {IF current_delay + j < 0 THEN 0 ELSE current_delay + j : j \in (0 - J)..J}

\* variant: the RequestError clause stands before the TimeoutException one
MapError_RequestErrorFirst(e) ==
    IF "RobotsTxtDisallowedError" \in ClassesOf(e.kind)
        THEN [body |-> "none", status |-> 403, url |-> "requested"]
    ELSE IF "HTTPStatusError" \in ClassesOf(e.kind)
        THEN [body |-> "none", status |-> e.status, url |-> "request_url"]
    ELSE IF "RequestError" \in ClassesOf(e.kind)
        THEN [body |-> "none", status |-> 599, url |-> "request_url"]
    ELSE IF "TimeoutException" \in ClassesOf(e.kind)
        THEN [body |-> "none", status |-> 408, url |-> "requested"]
    ELSE IF "PlaywrightBaseError" \in ClassesOf(e.kind)
        THEN [body |-> "none", status |-> 598, url |-> "requested"]
    ELSE [body |-> "none", status |-> 500, url |-> "requested"]

\* the except chain of fetch_page (crawler.py:441-464)
MapError(e) ==
    IF "RobotsTxtDisallowedError" \in ClassesOf(e.kind)
        THEN [body |-> "none", status |-> 403, url |-> "requested"]
    ELSE IF "HTTPStatusError" \in ClassesOf(e.kind)
        THEN [body |-> "none", status |-> e.status, url |-> "request_url"]
    ELSE IF "TimeoutException" \in ClassesOf(e.kind)
        THEN [body |-> "none", status |-> 408, url |-> "requested"]
    ELSE IF "RequestError" \in ClassesOf(e.kind)
        THEN [body |-> "none", status |-> 599, url |-> "request_url"]
    ELSE IF "PlaywrightBaseError" \in ClassesOf(e.kind)
        THEN [body |-> "none", status |-> 598, url |-> "requested"]
    ELSE [body |-> "none", status |-> 500, url |-> "requested"]

\* the exception leaves the call: fetch_page turns it into a triple, any
\* other caller sees it raised
Propagate(t, e) ==
    /\ pc' = [pc EXCEPT ![t] = "done"]
    /\ wakeAt' = [wakeAt EXCEPT ![t] = 0]
    /\ result' = [result EXCEPT ![t] =
                    IF entry[t] = "fetch_page" THEN MapError(e)
                    ELSE [body |-> "raised", status |-> e.status, url |-> e.kind]]
    /\ UNCHANGED sleeps

\* variant: the budget counts invocations instead of retries
WrapperCatches_OffByOne(t, e) ==
    IF Caught(t, e) /\ attempt[t] + 1 < budget[t]
    THEN \E actual_sleep_time \in SleepTimes(currentDelay[t]) :
            /\ pc' = [pc EXCEPT ![t] = "backoff_sleep"]
            /\ wakeAt' = [wakeAt EXCEPT ![t] = now + actual_sleep_time]
            /\ sleeps' = [sleeps EXCEPT ![t] = @ + 1]
            /\ UNCHANGED result
    ELSE Propagate(t, e)

\* async_retry.wrapper: the wrapped function raised e in the current attempt
WrapperCatches(t, e) ==
    IF Caught(t, e) /\ attempt[t] # budget[t]
    THEN \E actual_sleep_time \in SleepTimes(currentDelay[t]) :
            /\ pc' = [pc EXCEPT ![t] = "backoff_sleep"]
            /\ wakeAt' = [wakeAt EXCEPT ![t] = now + actual_sleep_time]
            /\ sleeps' = [sleeps EXCEPT ![t] = @ + 1]
            /\ UNCHANGED result
    ELSE Propagate(t, e)

\* an exception raised inside the task's call
Raise(t, e) ==
    /\ lastError' = [lastError EXCEPT ![t] = e]
    /\ IF entry[t] \in {"fetch_page", "retry"}
       THEN WrapperCatches(t, e)
       ELSE Propagate(t, e)

\* ============================================================ robots cache
\* crawler.py, _fetch_and_parse_robots_txt, _get_robots_parser,
\* _check_robots_txt

Permissive == "permissive"      \* the parser None
RobotsTexts == {"", "allow_all", "disallow_private", "unparseable"}
RobotsResponses ==
    {[status |-> 200, text |-> c] : c \in RobotsTexts} \cup
    {[status |-> 404, text |-> ""], [status |-> 500, text |-> ""],
     [status |-> 0, text |-> ""]}       \* status 0: httpx.RequestError

CachedDomains == {robotsCache[i].domain : i \in 1..Len(robotsCache)}
CacheGet(d) ==
    robotsCache[CHOOSE i \in 1..Len(robotsCache) : robotsCache[i].domain = d].parser
\* variant: a cache hit leaves the entry where it is
MoveToEnd_Noop(c, d) ==
    c

\* OrderedDict.move_to_end
MoveToEnd(c, d) ==
    SelectSeq(c, LAMBDA e : e.domain # d) \o SelectSeq(c, LAMBDA e : e.domain = d)

\* variant: store without evicting
CacheInsert_NoEvict(c, d, parser) ==
    IF \E i \in 1..Len(c) : c[i].domain = d
    THEN [i \in 1..Len(c) |->
            IF c[i].domain = d THEN [domain |-> d, parser |-> parser] ELSE c[i]]
    ELSE Append(c, [domain |-> d, parser |-> parser])

\* lines 165-169: evict the oldest entry of a full cache, then store
CacheInsert(c, d, parser) ==
    LET c1 == IF Len(c) >= ROBOTS_TXT_CACHE_SIZE THEN Tail(c) ELSE c
    IN  IF \E i \in 1..Len(c1) : c1[i].domain = d
        THEN [i \in 1..Len(c1) |->
                IF c1[i].domain = d THEN [domain |-> d, parser |-> parser] ELSE c1[i]]
        ELSE Append(c1, [domain |-> d, parser |-> parser])

\* history: d becomes the most recently used domain
Touch(order, d) == SelectSeq(order, LAMBDA x : x # d) \o <<d>>

\* RobotFileParser.parse of the fetched text; None when there is no text
\* or parsing raised
ParserOf(text) ==
    IF text = "" \/ text = "unparseable" THEN Permissive ELSE text

\* RobotFileParser.can_fetch(user_agent, url)
CanFetch(parser, p) == ~(parser = "disallow_private" /\ p = "/private/x")

RobotsWaiters(d) ==
    {t \in Tasks \ dropped : pc[t] = "robots_lock_wait" /\ dom[t] = d}
\* a lock of d that is no longer in the table is held
DroppedLockHeld(d) ==
    \E s \in dropped : dom[s] = d /\ pc[s] \in {"robots_https", "robots_http"}

\* the task suspends; nothing but its position changes
Suspend(t, where) ==
    /\ pc' = [pc EXCEPT ![t] = where]
    /\ UNCHANGED <<wakeAt, result, sleeps, lastError, verdictVars, limiterVars>>

\* fetch_page_content_with_retry after the robots check: "async with await
\* self.domain_rate_limiter.wait_for_domain(domain_for_limit)"
RateLimitAndFetch(t) ==
    /\ AcquireBegin(t, dom[t])
    /\ UNCHANGED <<result, sleeps, lastError>>

\* _check_robots_txt once _get_robots_parser has returned parser
RobotsChecked(t, parser) ==
    IF parser # Permissive /\ ~CanFetch(parser, path[t])
    THEN /\ verdict' = [verdict EXCEPT ![t] = "disallowed"]
         /\ Raise(t, Err("RobotsTxtDisallowedError"))
         /\ UNCHANGED <<wasAllowed, limiterVars>>
    ELSE /\ verdict' = [verdict EXCEPT ![t] = "allowed"]
         /\ wasAllowed' = [wasAllowed EXCEPT ![t] = TRUE]
         /\ RateLimitAndFetch(t)

\* _get_robots_parser returns parser to its caller
ParserReturned(t, parser) ==
    IF entry[t] = "robots"
    THEN /\ pc' = [pc EXCEPT ![t] = "done"]
         /\ result' = [result EXCEPT ![t] =
                         [body |-> parser, status |-> 0, url |-> "returned"]]
         /\ UNCHANGED <<wakeAt, sleeps, lastError, verdictVars, limiterVars>>
    ELSE RobotsChecked(t, parser)

\* variant: no second look at the cache once the lock is held
UnderFetchLock_NoDoubleCheck(t, d) ==
    /\ robotsLockHolder' = IF t \in dropped THEN robotsLockHolder
                           ELSE [robotsLockHolder EXCEPT ![d] = t]
    /\ UNCHANGED dropped
    /\ robotsFetches' = [robotsFetches EXCEPT ![d] = IF @ < 2 THEN @ + 1 ELSE @]
    /\ UNCHANGED <<robotsCache, useOrder, insertOrder>>
    /\ Suspend(t, "robots_https")

\* the body of "async with domain_fetch_lock", entered with the lock taken
UnderFetchLock(t, d) ==
    IF d \in CachedDomains
    THEN /\ robotsCache' = MoveToEnd(robotsCache, d)
         /\ useOrder' = Touch(useOrder, d)
         /\ robotsLockHolder' = IF t \in dropped THEN robotsLockHolder
                                ELSE [robotsLockHolder EXCEPT ![d] = NoTask]
         /\ dropped' = dropped \ {t}
         /\ UNCHANGED <<robotsFetches, insertOrder>>
         /\ ParserReturned(t, CacheGet(d))
    ELSE /\ robotsLockHolder' = IF t \in dropped THEN robotsLockHolder
                                ELSE [robotsLockHolder EXCEPT ![d] = t]
         /\ UNCHANGED dropped
         /\ robotsFetches' = [robotsFetches EXCEPT ![d] = IF @ < 2 THEN @ + 1 ELSE @]
         /\ UNCHANGED <<robotsCache, useOrder, insertOrder>>
         /\ Suspend(t, "robots_https")

\* _get_robots_parser from its first line to its first suspension
GetRobotsParser(t, d) ==
    IF d \in CachedDomains
    THEN /\ robotsCache' = MoveToEnd(robotsCache, d)
         /\ useOrder' = Touch(useOrder, d)
         /\ UNCHANGED <<registryLockExists, robotsFetchLocks, robotsLockHolder,
                        dropped, robotsFetches, insertOrder>>
         /\ ParserReturned(t, CacheGet(d))
    ELSE IF ~registryLockExists
    THEN \* "async with self._registry_lock" raises AttributeError
         /\ UNCHANGED robotsVars
         /\ Raise(t, Err("AttributeError"))
         /\ UNCHANGED <<verdictVars, limiterVars>>
    ELSE /\ robotsFetchLocks' = robotsFetchLocks \cup {d}
         /\ UNCHANGED registryLockExists
         /\ IF robotsLockHolder[d] = NoTask /\ RobotsWaiters(d) = {}
            THEN UnderFetchLock(t, d)
            ELSE /\ UNCHANGED <<robotsCache, useOrder, insertOrder,
                                robotsLockHolder, dropped, robotsFetches>>
                 /\ Suspend(t, "robots_lock_wait")

\* variant: only a parsed rule set is stored
RobotsFetched_SkipsNone(t, d, text) ==
    /\ robotsCache' = IF ParserOf(text) = Permissive THEN robotsCache
                      ELSE CacheInsert(robotsCache, d, ParserOf(text))
    /\ useOrder' = Touch(useOrder, d)
    /\ insertOrder' = Touch(insertOrder, d)
    /\ robotsLockHolder' = IF t \in dropped THEN robotsLockHolder
                           ELSE [robotsLockHolder EXCEPT ![d] = NoTask]
    /\ dropped' = dropped \ {t}
    /\ UNCHANGED <<registryLockExists, robotsFetchLocks, robotsFetches>>
    /\ ParserReturned(t, ParserOf(text))

\* _fetch_and_parse_robots_txt has its text (or none): parse, store in the
\* cache, leave the lock, return
RobotsFetched(t, d, text) ==
    /\ robotsCache' = CacheInsert(robotsCache, d, ParserOf(text))
    /\ useOrder' = Touch(useOrder, d)
    /\ insertOrder' = Touch(insertOrder, d)
    /\ robotsLockHolder' = IF t \in dropped THEN robotsLockHolder
                           ELSE [robotsLockHolder EXCEPT ![d] = NoTask]
    /\ dropped' = dropped \ {t}
    /\ UNCHANGED <<registryLockExists, robotsFetchLocks, robotsFetches>>
    /\ ParserReturned(t, ParserOf(text))

\* the task has entered _fetch_and_parse_robots_txt exactly when the step
\* leaves it suspended in the request of the HTTPS URL
MissBegins(t) ==
    httpsStatus' = IF pc'[t] = "robots_https"
                   THEN [httpsStatus EXCEPT ![t] = None]
                   ELSE httpsStatus

\* a direct caller calls _get_robots_parser(d)
RobotsLookup(t, d) ==
    /\ pc[t] = "idle"
    /\ entry[t] = "robots"
    /\ dom' = [dom EXCEPT ![t] = d]
    /\ GetRobotsParser(t, d)
    /\ MissBegins(t)
    /\ UNCHANGED <<browserVars, contextVars, closeVars, inspectVars, settingVars, clockVars, entry, path, usePlaywright, attempt,
                   budget, currentDelay, invocations>>
    /\ RegistryBlocks(t)

\* the caller's lookup is over; it is free to make another one
LookupAgain(t) ==
    /\ pc[t] = "done"
    /\ entry[t] = "robots"
    /\ pc' = [pc EXCEPT ![t] = "idle"]
    /\ result' = [result EXCEPT ![t] = NoResult]
    /\ dom' = [dom EXCEPT ![t] = NoDomain]
    /\ lastError' = [lastError EXCEPT ![t] = NoError]
    /\ httpsStatus' = [httpsStatus EXCEPT ![t] = None]
    /\ UNCHANGED <<browserVars, contextVars, closeVars, inspectVars, registryVars, settingVars, clockVars, limiterVars, robotsVars, verdictVars,
                   wakeAt, sleeps, entry, path, usePlaywright, attempt, budget,
                   currentDelay, invocations>>

\* the robots fetch lock is handed to a queued task
RobotsLockGranted(t) ==
    /\ pc[t] = "robots_lock_wait"
    /\ IF t \in dropped THEN ~DroppedLockHeld(dom[t])
       ELSE robotsLockHolder[dom[t]] = NoTask
    /\ UnderFetchLock(t, dom[t])
    /\ MissBegins(t)
    /\ UNCHANGED <<browserVars, contextVars, closeVars, inspectVars, settingVars, clockVars, callVars, registryLockExists,
                   robotsFetchLocks>>
    /\ RegistryBlocks(t)

\* environment: the answers a request for the robots.txt of d can get.  A
\* domain serves "User-agent: *, Disallow: /private/", or has no
\* robots.txt that can be obtained, or is left open
RobotsSites == {"open", "unobtainable", "disallow_private"}
SiteResponses(d) ==
    IF robotsTxt[d] = "disallow_private"
        THEN {[status |-> 200, text |-> "disallow_private"]}
    ELSE IF robotsTxt[d] = "unobtainable"
        THEN {r \in RobotsResponses :
                ~(r.status = 200 /\ r.text \in {"allow_all", "disallow_private"})}
    ELSE RobotsResponses

\* variant: a 404 for the HTTPS URL ends the fetch with no content
RobotsHttpsResponse_StopsOn404(t, r) ==
    /\ pc[t] = "robots_https"
    /\ r \in SiteResponses(dom[t])
    /\ IF r.status \in {200, 404}
       THEN RobotsFetched(t, dom[t], r.text)
       ELSE /\ UNCHANGED robotsVars
            /\ Suspend(t, "robots_http")
    /\ httpsStatus' = IF entry[t] = "robots"
                      THEN [httpsStatus EXCEPT ![t] = r.status]
                      ELSE httpsStatus
    /\ UNCHANGED <<browserVars, contextVars, closeVars, inspectVars, settingVars, clockVars, callVars>>
    /\ RegistryBlocks(t)

\* the request for https://{domain}/robots.txt ends with r
RobotsHttpsResponse(t, r) ==
    /\ pc[t] = "robots_https"
    /\ r \in SiteResponses(dom[t])
    /\ IF r.status = 200
       THEN RobotsFetched(t, dom[t], r.text)
       ELSE /\ UNCHANGED robotsVars
            /\ Suspend(t, "robots_http")
    /\ httpsStatus' = IF entry[t] = "robots"
                      THEN [httpsStatus EXCEPT ![t] = r.status]
                      ELSE httpsStatus
    /\ UNCHANGED <<browserVars, contextVars, closeVars, inspectVars, settingVars, clockVars, callVars>>
    /\ RegistryBlocks(t)

\* the request for http://{domain}/robots.txt ends with r
RobotsHttpResponse(t, r) ==
    /\ pc[t] = "robots_http"
    /\ r \in SiteResponses(dom[t])
    /\ RobotsFetched(t, dom[t], IF r.status = 200 THEN r.text ELSE "")
    /\ UNCHANGED requestVars
    /\ UNCHANGED <<browserVars, contextVars, closeVars, inspectVars, settingVars, clockVars, callVars>>
    /\ RegistryBlocks(t)

\* AsyncWebCrawler.__post_init__, which nothing calls on construction
PostInit ==
    /\ ~registryLockExists
    /\ registryLockExists' = TRUE
    /\ UNCHANGED <<browserVars, contextVars, closeVars, inspectVars, requestVars, registryVars, settingVars, clockVars, limiterVars, verdictVars, outcomeVars,
                   callVars, robotsCache, robotsFetchLocks, robotsLockHolder,
                   dropped, robotsFetches, useOrder, insertOrder>>

\* ====================================================== fetch orchestration
\* crawler.py, fetch_page_content_with_retry and fetch_page

\* a response with its text; "captcha_html" stands for a page with one of
\* the CAPTCHA phrases in its first 2500 characters
Pages == {"html", "captcha_html"}
Page(code, text) == [kind |-> "ok", status |-> code, body |-> text]

\* "if html_content:" and the keyword search on the cleaned, lowered sample
CaptchaFound(body) == body # "" /\ body = "captcha_html"

\* variant: a page with a CAPTCHA phrase is withheld
Inspected_Withheld(triple) ==
    IF CaptchaFound(triple.body)
    THEN [triple |-> [body |-> "none", status |-> 403, url |-> triple.url],
          warning |-> TRUE]
    ELSE [triple |-> triple, warning |-> FALSE]

\* the CAPTCHA inspection of fetch_page_content_with_retry and its return
\* statement: what is returned, and whether the warning was logged
Inspected(triple) ==
    [triple |-> triple, warning |-> CaptchaFound(triple.body)]

\* how "await client.get(url)" + raise_for_status of the httpx strategy and
\* _fetch_with_playwright of the browser strategy can end
HttpxOutcomes ==
    {Page(200, "html"), Page(200, "captcha_html"), StatusErr(404), StatusErr(500),
     Err("TimeoutException"), Err("RequestError")}
\* how the try block of _fetch_with_playwright can end: a response of some
\* status, no response object, a navigation timeout, another browser error,
\* or an exception that is no browser error
PageOutcomes ==
    {Page(200, "html"), Page(200, "captcha_html"), Page(404, "html"),
     [kind |-> "no_response", status |-> 0],
     Err("PlaywrightTimeoutError"), Err("PlaywrightBaseError"), Err("Exception")}

\* "raise PlaywrightBaseError(...) from e"
WrappedErr(e) == [kind |-> "PlaywrightBaseError", status |-> 0, cause |-> e.kind]
CauseOf(e) == IF "cause" \in DOMAIN e THEN e.cause ELSE "none"

\* _fetch_with_playwright: what its except clauses make of the outcome o of
\* its try block; the status_code they assign is a local that is dropped
\* when they raise
FetchWithPlaywright(o) ==
    IF o.kind = "ok" THEN o
    ELSE IF o.kind = "no_response" THEN Err("PlaywrightBaseError")
    ELSE IF "PlaywrightTimeoutError" \in ClassesOf(o.kind) THEN o
    ELSE IF "PlaywrightBaseError" \in ClassesOf(o.kind) THEN o
    ELSE WrappedErr(o)

PlaywrightOutcomes == {FetchWithPlaywright(o) : o \in PageOutcomes}
StrategyOutcomes(t) ==
    IF usePlaywright[t] THEN PlaywrightOutcomes ELSE HttpxOutcomes

\* variant: the rate limiter is entered without the robots check
FetchBody_Unchecked(t) ==
    /\ UNCHANGED <<robotsVars, verdictVars>>
    /\ RateLimitAndFetch(t)

\* variant: the robots check runs whatever the setting says
FetchBody_AlwaysChecks(t) == GetRobotsParser(t, dom[t])

\* the body of fetch_page_content_with_retry from its first line to its
\* first suspension
FetchBody(t) ==
    IF RESPECT_ROBOTS_TXT
    THEN GetRobotsParser(t, dom[t])
    ELSE /\ UNCHANGED <<robotsVars, verdictVars>>
         /\ RateLimitAndFetch(t)

\* the wrapper invokes the wrapped function
InvokeWrapped(t) ==
    IF entry[t] = "fetch_page"
    THEN FetchBody(t)
    ELSE /\ pc' = [pc EXCEPT ![t] = "op_running"]
         /\ wakeAt' = [wakeAt EXCEPT ![t] = 0]
         /\ UNCHANGED <<result, sleeps, lastError, robotsVars, verdictVars, limiterVars>>

\* fetch_page(url, use_playwright) is called
FetchPage(t) ==
    /\ pc[t] = "idle"
    /\ entry[t] = "fetch_page"
    /\ IF dom[t] = NoDomain
       THEN /\ pc' = [pc EXCEPT ![t] = "done"]
            /\ result' = [result EXCEPT ![t] =
                            [body |-> "none", status |-> 0, url |-> "requested"]]
            /\ UNCHANGED <<wakeAt, sleeps, lastError, robotsVars, verdictVars, limiterVars,
                           attempt, budget, currentDelay, invocations>>
       ELSE IF dom[t] = MalformedUrl
       THEN \* "domain = extract_domain(url)" stands before the try of
            \* fetch_page, and urlparse(url) before the try of
            \* extract_domain: its ValueError reaches the caller
            /\ pc' = [pc EXCEPT ![t] = "done"]
            /\ result' = [result EXCEPT ![t] =
                            [body |-> "raised", status |-> 0, url |-> "ValueError"]]
            /\ lastError' = [lastError EXCEPT ![t] = Err("ValueError")]
            /\ UNCHANGED <<wakeAt, sleeps, robotsVars, verdictVars, limiterVars,
                           attempt, budget, currentDelay, invocations>>
       ELSE /\ attempt' = [attempt EXCEPT ![t] = 0]
            /\ budget' = [budget EXCEPT ![t] =
                            IF max_retries_override[t] = None THEN MAX_RETRIES
                            ELSE max_retries_override[t]]
            /\ currentDelay' = [currentDelay EXCEPT ![t] = delay_seconds]
            /\ invocations' = [invocations EXCEPT ![t] = 1]
            /\ FetchBody(t)
    /\ UNCHANGED <<browserVars, contextVars, closeVars, inspectVars, requestVars, settingVars, clockVars, entry, dom, path, usePlaywright>>
    /\ RegistryBlocks(t)

\* variant: the permit is given back only when the strategy returned a result
StrategyReturns_KeepsPermitOnError(t, o) ==
    /\ pc[t] = "fetching"
    /\ o \in StrategyOutcomes(t)
    /\ IF o.kind = "ok"
       THEN /\ domainSemaphores' = ReleaseSemaphore(dom[t])
            /\ permits' = [permits EXCEPT ![t] = @ - 1]
            /\ pc' = [pc EXCEPT ![t] = "done"]
            /\ fetched' = [fetched EXCEPT ![t] =
                            [body |-> o.body, status |-> o.status, url |-> "final"]]
            /\ result' = [result EXCEPT ![t] =
                            Inspected([body |-> o.body, status |-> o.status,
                                       url |-> "final"]).triple]
            /\ lastError' = [lastError EXCEPT ![t] = NoError]
            /\ UNCHANGED <<wakeAt, sleeps>>
       ELSE /\ Raise(t, o)
            /\ UNCHANGED <<fetched, domainSemaphores, permits>>
    /\ UNCHANGED <<browserVars, contextVars, closeVars, requestVars, registryVars, settingVars, clockVars, callVars, robotsVars, verdictVars,
                   domainLockHolder, lastRequestTime, prevRequestTime, recorded,
                   taken>>

\* the fetch strategy ends with outcome o: __aexit__ releases the permit;
\* a result passes the CAPTCHA inspection unchanged and is returned, an
\* exception goes to the retry wrapper
StrategyReturns(t, o) ==
    /\ pc[t] = "fetching"
    /\ o \in StrategyOutcomes(t)
    /\ domainSemaphores' = ReleaseSemaphore(dom[t])
    /\ permits' = [permits EXCEPT ![t] = @ - 1]
    /\ IF o.kind = "ok"
       THEN /\ pc' = [pc EXCEPT ![t] = "done"]
            /\ fetched' = [fetched EXCEPT ![t] =
                            [body |-> o.body, status |-> o.status, url |-> "final"]]
            /\ result' = [result EXCEPT ![t] =
                            Inspected([body |-> o.body, status |-> o.status,
                                       url |-> "final"]).triple]
            /\ lastError' = [lastError EXCEPT ![t] = NoError]
            /\ UNCHANGED <<wakeAt, sleeps>>
       ELSE /\ Raise(t, o)
            /\ UNCHANGED fetched
    /\ UNCHANGED <<browserVars, contextVars, closeVars, requestVars, registryVars, settingVars, clockVars, callVars, robotsVars, verdictVars,
                   domainLockHolder, lastRequestTime, prevRequestTime, recorded,
                   taken>>

\* variant: the delay is not multiplied after a retry
BackoffOver_ConstantDelay(t) ==
    /\ pc[t] = "backoff_sleep"
    /\ now >= wakeAt[t]
    /\ attempt' = [attempt EXCEPT ![t] = @ + 1]
    /\ invocations' = [invocations EXCEPT ![t] = @ + 1]
    /\ InvokeWrapped(t)
    /\ UNCHANGED <<browserVars, contextVars, closeVars, inspectVars, requestVars, settingVars, clockVars, entry, dom, path, usePlaywright, budget, currentDelay>>
    /\ RegistryBlocks(t)

\* variant: the loop goes round without advancing its variable
BackoffOver_SameAttempt(t) ==
    /\ pc[t] = "backoff_sleep"
    /\ now >= wakeAt[t]
    /\ currentDelay' = [currentDelay EXCEPT ![t] = @ * backoff_factor]
    /\ invocations' = [invocations EXCEPT ![t] = @ + 1]
    /\ InvokeWrapped(t)
    /\ UNCHANGED <<browserVars, contextVars, closeVars, inspectVars, requestVars, settingVars, clockVars, entry, dom, path, usePlaywright, budget, attempt>>
    /\ RegistryBlocks(t)

\* "await asyncio.sleep(actual_sleep_time)" of the wrapper is over:
\* "current_delay *= backoff_factor", next iteration of the loop
BackoffOver(t) ==
    /\ pc[t] = "backoff_sleep"
    /\ now >= wakeAt[t]
    /\ attempt' = [attempt EXCEPT ![t] = @ + 1]
    /\ currentDelay' = [currentDelay EXCEPT ![t] = @ * backoff_factor]
    /\ invocations' = [invocations EXCEPT ![t] = @ + 1]
    /\ InvokeWrapped(t)
    /\ UNCHANGED <<browserVars, contextVars, closeVars, inspectVars, requestVars, settingVars, clockVars, entry, dom, path, usePlaywright, budget>>
    /\ RegistryBlocks(t)

\* a function decorated with @async_retry(max_retries_override=...,
\* exceptions=(CustomRetryException,)) is called: "current_max_retries =
\* max_retries_override; if current_max_retries is None: current_max_retries
\* = global_app_settings.crawler.MAX_RETRIES"
CallRetry(t) ==
    /\ pc[t] = "idle"
    /\ entry[t] = "retry"
    /\ attempt' = [attempt EXCEPT ![t] = 0]
    /\ budget' = [budget EXCEPT ![t] =
                    IF max_retries_override[t] = None THEN MAX_RETRIES
                    ELSE max_retries_override[t]]
    /\ currentDelay' = [currentDelay EXCEPT ![t] = delay_seconds]
    /\ invocations' = [invocations EXCEPT ![t] = 1]
    /\ InvokeWrapped(t)
    /\ UNCHANGED <<browserVars, contextVars, closeVars, inspectVars, requestVars, registryVars, settingVars, clockVars, entry, dom, path, usePlaywright>>

\* the wrapped operation returns a value or raises
OpOutcomes == {"ok", "CustomRetryException", "ValueError"}
\* what the k-th invocation of the operation returns; "return await
\* func(*args, **kwargs)" hands it to the caller
OpValue(k) == [body |-> "value", status |-> k, url |-> "returned"]
OpReturns(t, o) ==
    /\ pc[t] = "op_running"
    /\ IF o = "ok"
       THEN /\ pc' = [pc EXCEPT ![t] = "done"]
            /\ result' = [result EXCEPT ![t] = OpValue(invocations[t])]
            /\ lastError' = [lastError EXCEPT ![t] = NoError]
            /\ UNCHANGED <<wakeAt, sleeps>>
       ELSE Raise(t, Err(o))
    /\ UNCHANGED <<browserVars, contextVars, closeVars, inspectVars, requestVars, registryVars, settingVars, clockVars, callVars, robotsVars, verdictVars,
                   limiterVars>>

\* task.cancel() reaches a suspended task: CancelledError unwinds its call.
\* Every "async with" it is inside of runs its exit: the domain lock, the
\* robots fetch lock and, inside the block of wait_for_domain, the permit.
\* acquire itself has no handler that gives back the permit it took.
Cancel(t) ==
    /\ pc[t] \in {"sem_wait", "lock_wait", "rate_sleep", "fetching",
                  "robots_lock_wait", "robots_https", "robots_http",
                  "backoff_sleep", "op_running"}
    /\ pc' = [pc EXCEPT ![t] = "cancelled"]
    /\ wakeAt' = [wakeAt EXCEPT ![t] = 0]
    /\ domainLockHolder' = [d \in Domains |->
                              IF domainLockHolder[d] = t THEN NoTask
                              ELSE domainLockHolder[d]]
    /\ robotsLockHolder' = [d \in Domains |->
                              IF robotsLockHolder[d] = t THEN NoTask
                              ELSE robotsLockHolder[d]]
    /\ dropped' = dropped \ {t}
    /\ IF pc[t] = "fetching"
       THEN /\ domainSemaphores' = ReleaseSemaphore(dom[t])
            /\ permits' = [permits EXCEPT ![t] = @ - 1]
       ELSE UNCHANGED <<domainSemaphores, permits>>
    /\ UNCHANGED <<browserVars, contextVars, closeVars, inspectVars, requestVars, registryVars, settingVars, clockVars, callVars, verdictVars, result, sleeps, lastError,
                   lastRequestTime, prevRequestTime, recorded, taken,
                   registryLockExists, robotsCache, robotsFetchLocks,
                   robotsFetches, useOrder, insertOrder>>

\* ======================================================== headless browser
\* crawler.py, _ensure_playwright_browser. The instance and the browser a
\* task starts are named after the task.

\* _ensure_playwright_browser returns the browser: to a caller of its own,
\* or to _get_playwright_page, which goes on to "context = await
\* browser.new_context(...)"
BrowserReturned(t) ==
    IF entry[t] = "browser"
    THEN /\ pc' = [pc EXCEPT ![t] = "done"]
         /\ result' = [result EXCEPT ![t] =
                         [body |-> "browser", status |-> 0, url |-> "returned"]]
         /\ UNCHANGED <<wakeAt, sleeps, lastError>>
    ELSE /\ pc' = [pc EXCEPT ![t] = "context_creating"]
         /\ UNCHANGED <<wakeAt, result, sleeps, lastError>>

\* an exception inside the try block of _fetch_with_playwright leaves it
\* through its except clauses; elsewhere it is raised as it is
StrategyRaises(t, e) ==
    Raise(t, IF entry[t] = "playwright_fetch" THEN FetchWithPlaywright(e) ELSE e)

\* _ensure_playwright_browser from "if cls._browser is None or not
\* cls._browser.is_connected()" to its next suspension or its return
LaunchOrReturn(t) ==
    IF browser = None \/ browser \notin connectedBrowsers
    THEN \* "await cls._playwright_instance.chromium.launch(...)"
         /\ pc' = [pc EXCEPT ![t] = "browser_launching"]
         /\ UNCHANGED <<browser, connectedBrowsers, usedBrowser, wakeAt, result,
                        sleeps, lastError>>
    ELSE \* "return cls._browser"
         /\ usedBrowser' = [usedBrowser EXCEPT ![t] = browser]
         /\ BrowserReturned(t)
         /\ UNCHANGED <<browser, connectedBrowsers>>

\* a fetch calls _ensure_playwright_browser
EnsurePlaywrightBrowser(t) ==
    /\ pc[t] = "idle"
    /\ entry[t] \in {"browser", "playwright_fetch"}
    /\ IF playwright_instance = None
       THEN \* "await async_playwright().start()"
            /\ pc' = [pc EXCEPT ![t] = "playwright_starting"]
            /\ UNCHANGED <<browser, connectedBrowsers, usedBrowser, wakeAt, result,
                           sleeps, lastError>>
       ELSE LaunchOrReturn(t)
    /\ UNCHANGED <<playwright_instance, instancesStarted>>
    /\ UNCHANGED <<settingVars, clockVars, limiterVars, robotsVars, verdictVars,
                   callVars, contextVars, closeVars, inspectVars, requestVars, registryVars>>

\* "async_playwright().start()" is over: the instance is stored, or the
\* failure is logged and raised again
PlaywrightStarted(t, ok) ==
    /\ pc[t] = "playwright_starting"
    /\ IF ok
       THEN /\ playwright_instance' = t
            /\ instancesStarted' = instancesStarted + 1
            /\ LaunchOrReturn(t)
       ELSE /\ StrategyRaises(t, Err("Exception"))
            /\ UNCHANGED browserVars
    /\ UNCHANGED <<settingVars, clockVars, limiterVars, robotsVars, verdictVars,
                   callVars, contextVars, closeVars, inspectVars, requestVars, registryVars>>

\* "chromium.launch(...)" is over: the browser is stored and returned, or
\* the failure is logged and raised again
BrowserLaunched(t, ok) ==
    /\ pc[t] = "browser_launching"
    /\ IF ok
       THEN /\ browser' = t
            /\ connectedBrowsers' = connectedBrowsers \cup {t}
            /\ usedBrowser' = [usedBrowser EXCEPT ![t] = t]
            /\ BrowserReturned(t)
            /\ UNCHANGED <<playwright_instance, instancesStarted>>
       ELSE /\ StrategyRaises(t, Err("Exception"))
            /\ UNCHANGED browserVars
    /\ UNCHANGED <<settingVars, clockVars, limiterVars, robotsVars, verdictVars,
                   callVars, contextVars, closeVars, inspectVars, requestVars, registryVars>>

\* environment: a browser process dies or loses its connection
BrowserDisconnects(b) ==
    /\ b \in connectedBrowsers
    /\ connectedBrowsers' = connectedBrowsers \ {b}
    /\ UNCHANGED <<playwright_instance, browser, instancesStarted, usedBrowser>>
    /\ UNCHANGED <<settingVars, clockVars, limiterVars, robotsVars, verdictVars,
                   outcomeVars, callVars, contextVars, closeVars, inspectVars, requestVars, registryVars>>

\* ---- crawler.py, _get_playwright_page and _fetch_with_playwright

\* "await browser.new_context(...)" is over
ContextCreated(t, ok) ==
    /\ pc[t] = "context_creating"
    /\ IF ok
       THEN \* on to add_init_script, new_page and page.evaluate
            /\ contextsOpened' = [contextsOpened EXCEPT ![t] = @ + 1]
            /\ pc' = [pc EXCEPT ![t] = "page_setup"]
            /\ UNCHANGED <<wakeAt, result, sleeps, lastError>>
       ELSE /\ StrategyRaises(t, Err("PlaywrightBaseError"))
            /\ UNCHANGED contextsOpened
    /\ UNCHANGED <<context, pending, contextsClosed>>
    /\ UNCHANGED <<settingVars, clockVars, limiterVars, robotsVars, verdictVars,
                   callVars, browserVars, closeVars, inspectVars, requestVars, registryVars>>

\* "await context.add_init_script(...)", "await context.new_page()" and
\* "await page.evaluate(...)" are over: _get_playwright_page returns
\* (page, context) and page.goto starts, or one of them raised and the local
\* "context" of _fetch_with_playwright stays None for its finally clause
PageSetUp(t, ok) ==
    /\ pc[t] = "page_setup"
    /\ IF ok
       THEN /\ context' = [context EXCEPT ![t] = TRUE]
            /\ pc' = [pc EXCEPT ![t] = "navigating"]
            /\ UNCHANGED <<wakeAt, result, sleeps, lastError>>
       ELSE /\ StrategyRaises(t, Err("PlaywrightBaseError"))
            /\ UNCHANGED context
    /\ UNCHANGED <<pending, contextsOpened, contextsClosed>>
    /\ UNCHANGED <<settingVars, clockVars, limiterVars, robotsVars, verdictVars,
                   callVars, browserVars, closeVars, inspectVars, requestVars, registryVars>>

\* the try block ends with outcome o; the finally clause starts
\* "await context.close()"
Navigated(t, o) ==
    /\ pc[t] = "navigating"
    /\ o \in PageOutcomes
    /\ pending' = [pending EXCEPT ![t] = FetchWithPlaywright(o)]
    /\ pc' = [pc EXCEPT ![t] = "context_closing"]
    /\ UNCHANGED <<context, contextsOpened, contextsClosed, wakeAt, result, sleeps,
                   lastError>>
    /\ UNCHANGED <<settingVars, clockVars, limiterVars, robotsVars, verdictVars,
                   callVars, browserVars, closeVars, inspectVars, requestVars, registryVars>>

\* "await context.close()" is over: the call returns its triple or raises
\* what the try block left
ContextClosed(t) ==
    /\ pc[t] = "context_closing"
    /\ contextsClosed' = [contextsClosed EXCEPT ![t] = @ + 1]
    /\ IF pending[t].kind = "ok"
       THEN /\ pc' = [pc EXCEPT ![t] = "done"]
            /\ result' = [result EXCEPT ![t] =
                            [body |-> pending[t].body, status |-> pending[t].status,
                             url |-> "final"]]
            /\ UNCHANGED <<wakeAt, sleeps, lastError>>
       ELSE IF pending[t].kind = "CancelledError"
       THEN /\ pc' = [pc EXCEPT ![t] = "cancelled"]
            /\ UNCHANGED <<wakeAt, result, sleeps, lastError>>
       ELSE Raise(t, pending[t])
    /\ UNCHANGED <<context, pending, contextsOpened>>
    /\ UNCHANGED <<settingVars, clockVars, limiterVars, robotsVars, verdictVars,
                   callVars, browserVars, closeVars, inspectVars, requestVars, registryVars>>

\* task.cancel() reaches a task suspended in _fetch_with_playwright.
\* Suspended in page.goto, CancelledError passes the except clauses (it is
\* no Exception) and the finally clause closes the context; suspended in
\* _get_playwright_page, the finally clause finds "context" None; suspended
\* in context.close(), the close is abandoned and may or may not have
\* happened
CancelPlaywrightFetch(t) ==
    /\ entry[t] = "playwright_fetch"
    /\ pc[t] \in {"playwright_starting", "browser_launching", "context_creating",
                  "page_setup", "navigating", "context_closing"}
    /\ IF pc[t] = "navigating"
       THEN /\ pending' = [pending EXCEPT ![t] = Err("CancelledError")]
            /\ pc' = [pc EXCEPT ![t] = "context_closing"]
            /\ UNCHANGED contextsClosed
       ELSE IF pc[t] = "context_closing"
       THEN /\ \E closed \in BOOLEAN :
                    contextsClosed' = [contextsClosed EXCEPT ![t] =
                                          IF closed THEN @ + 1 ELSE @]
            /\ pc' = [pc EXCEPT ![t] = "cancelled"]
            /\ UNCHANGED pending
       ELSE /\ pc' = [pc EXCEPT ![t] = "cancelled"]
            /\ UNCHANGED <<pending, contextsClosed>>
    /\ UNCHANGED <<context, contextsOpened, wakeAt, result, sleeps, lastError>>
    /\ UNCHANGED <<settingVars, clockVars, limiterVars, robotsVars, verdictVars,
                   callVars, browserVars, closeVars, inspectVars, requestVars, registryVars>>

\* ================================================================ shutdown
\* crawler.py, close and close_playwright_resources

\* close: "async with self._registry_lock" and the two clear() calls. The
\* lock objects leave the table; whoever holds or awaits one keeps it
ClearRegistries(t) ==
    IF ~registryLockExists
    THEN \* AttributeError leaves close()
         /\ UNCHANGED robotsVars
         /\ Raise(t, Err("AttributeError"))
    ELSE /\ robotsCache' = << >>
         /\ robotsFetchLocks' = {}
         /\ robotsLockHolder' = [d \in Domains |-> NoTask]
         /\ dropped' = dropped \cup
                {u \in Tasks : pc[u] \in {"robots_lock_wait", "robots_https",
                                         "robots_http"}}
         /\ UNCHANGED <<registryLockExists, robotsFetches, useOrder, insertOrder>>
         /\ pc' = [pc EXCEPT ![t] = "done"]
         /\ result' = [result EXCEPT ![t] =
                         [body |-> "closed", status |-> 0, url |-> "returned"]]
         /\ UNCHANGED <<wakeAt, sleeps, lastError>>

\* close_playwright_resources from "if cls._playwright_instance" on
StopOrClear(t) ==
    IF playwright_instance # None
    THEN \* "await cls._playwright_instance.stop()"
         /\ pc' = [pc EXCEPT ![t] = "playwright_stopping"]
         /\ UNCHANGED <<robotsVars, wakeAt, result, sleeps, lastError>>
    ELSE ClearRegistries(t)

\* close() is called: close_playwright_resources up to its first suspension
CloseCalled(t) ==
    /\ pc[t] = "idle"
    /\ entry[t] = "close"
    /\ shutdowns' = shutdowns + 1
    /\ IF browser # None /\ browser \in connectedBrowsers
       THEN \* "await cls._browser.close()"
            /\ usedBrowser' = [usedBrowser EXCEPT ![t] = browser]
            /\ pc' = [pc EXCEPT ![t] = "browser_closing"]
            /\ UNCHANGED <<robotsVars, wakeAt, result, sleeps, lastError>>
       ELSE /\ UNCHANGED usedBrowser
            /\ StopOrClear(t)
    /\ UNCHANGED <<playwright_instance, browser, connectedBrowsers, instancesStarted>>
    /\ UNCHANGED <<settingVars, clockVars, limiterVars, verdictVars, callVars,
                   contextVars, inspectVars, requestVars>>
    /\ RegistryBlocks(t)

\* "await cls._browser.close()" is over: "cls._browser = None"
BrowserClosed(t) ==
    /\ pc[t] = "browser_closing"
    /\ connectedBrowsers' = connectedBrowsers \ {usedBrowser[t]}
    /\ browser' = None
    /\ StopOrClear(t)
    /\ UNCHANGED <<playwright_instance, instancesStarted, usedBrowser>>
    /\ UNCHANGED <<settingVars, clockVars, limiterVars, verdictVars, callVars,
                   contextVars, closeVars, inspectVars, requestVars>>
    /\ RegistryBlocks(t)

\* "await cls._playwright_instance.stop()" is over:
\* "cls._playwright_instance = None", and close() goes on
PlaywrightStopped(t) ==
    /\ pc[t] = "playwright_stopping"
    /\ playwright_instance' = None
    /\ ClearRegistries(t)
    /\ UNCHANGED <<browser, connectedBrowsers, instancesStarted, usedBrowser>>
    /\ UNCHANGED <<settingVars, clockVars, limiterVars, verdictVars, callVars,
                   contextVars, closeVars, inspectVars, requestVars>>
    /\ RegistryBlocks(t)

\* the owner of the crawler, done with the browser, turns to close()
TurnToClose(t) ==
    /\ pc[t] = "done"
    /\ entry[t] = "browser"
    /\ entry' = [entry EXCEPT ![t] = "close"]
    /\ pc' = [pc EXCEPT ![t] = "idle"]
    /\ result' = [result EXCEPT ![t] = NoResult]
    /\ lastError' = [lastError EXCEPT ![t] = NoError]
    /\ UNCHANGED <<settingVars, clockVars, limiterVars, robotsVars, verdictVars,
                   wakeAt, sleeps, dom, path, usePlaywright, attempt, budget,
                   currentDelay, invocations, browserVars, contextVars, closeVars, inspectVars, requestVars, registryVars>>

\* ================================================================== states
InitState ==
    /\ domainSemaphores = [d \in {} |-> 0]
    /\ domainLockHolder = [d \in Domains |-> NoTask]
    /\ lastRequestTime = [d \in Domains |-> 0]
    /\ prevRequestTime = [d \in Domains |-> 0]
    /\ recorded = [d \in Domains |-> 0]
    /\ permits = [t \in Tasks |-> 0]
    /\ taken = [t \in Tasks |-> FALSE]
    /\ registryLockExists = FALSE
    /\ robotsCache = << >>
    /\ robotsFetchLocks = {}
    /\ robotsLockHolder = [d \in Domains |-> NoTask]
    /\ dropped = {}
    /\ robotsFetches = [d \in Domains |-> 0]
    /\ useOrder = << >>
    /\ insertOrder = << >>
    /\ verdict = [t \in Tasks |-> "none"]
    /\ wasAllowed = [t \in Tasks |-> FALSE]
    /\ pc = [t \in Tasks |-> "idle"]
    /\ wakeAt = [t \in Tasks |-> 0]
    /\ result = [t \in Tasks |-> NoResult]
    /\ sleeps = [t \in Tasks |-> 0]
    /\ lastError = [t \in Tasks |-> NoError]
    /\ attempt = [t \in Tasks |-> 0]
    /\ budget = [t \in Tasks |-> 0]
    /\ currentDelay = [t \in Tasks |-> 0]
    /\ invocations = [t \in Tasks |-> 0]
    /\ playwright_instance = None
    /\ browser = None
    /\ connectedBrowsers = {}
    /\ instancesStarted = 0
    /\ usedBrowser = [t \in Tasks |-> None]
    /\ context = [t \in Tasks |-> FALSE]
    /\ pending = [t \in Tasks |-> NoError]
    /\ contextsOpened = [t \in Tasks |-> 0]
    /\ contextsClosed = [t \in Tasks |-> 0]
    /\ shutdowns = 0
    /\ fetched = [t \in Tasks |-> NoResult]
    /\ httpsStatus = [t \in Tasks |-> None]
    /\ limiterRegistryHolder = NoTask
    /\ crawlerRegistryHolder = NoTask

\* ---- callers of the rate limiter alone
InitLimiter ==
    /\ InitState
    /\ now \in 0..MaxStartTime
    /\ MAX_CONCURRENT_REQUESTS_PER_DOMAIN \in 1..MaxCeiling
    /\ RESPECT_ROBOTS_TXT = TRUE
    /\ robotsTxt = [d \in Domains |-> "open"]
    /\ max_retries_override = [t \in Tasks |-> None]
    /\ entry = [t \in Tasks |-> "acquire"]
    /\ dom = [t \in Tasks |-> NoDomain]
    /\ path = [t \in Tasks |-> "/public/x"]
    /\ usePlaywright = [t \in Tasks |-> FALSE]

NextLimiter ==
    \/ \E t \in Tasks, d \in LimiterDomains : WaitForDomain(t, d)
    \/ \E t \in Tasks : SemaphoreGranted(t)
    \/ \E t \in Tasks : LockGranted(t)
    \/ \E t \in Tasks : RateSleepOver(t)
    \/ \E t \in Tasks : LeaveDomain(t)
    \/ Tick

SpecLimiter == InitLimiter /\ [][NextLimiter]_vars

\* ---- callers of the rate limiter under the scheduling of the event loop:
\* callers arrive until MaxTime; a ready task is run, a sleep runs out, a
\* caller inside its "async with" block leaves it, nobody is cancelled
Arrives(t, d) ==
    /\ now < MaxTime
    /\ WaitForDomain(t, d)

NextLimiterFair ==
    \/ \E t \in Tasks, d \in LimiterDomains : Arrives(t, d)
    \/ \E t \in Tasks : SemaphoreGranted(t)
    \/ \E t \in Tasks : LockGranted(t)
    \/ \E t \in Tasks : RateSleepOver(t)
    \/ \E t \in Tasks : LeaveDomain(t)
    \/ Tick
    \/ SleepElapses

FairLimiter ==
    /\ \A t \in Tasks : WF_vars(SemaphoreGranted(t))
    /\ \A t \in Tasks : WF_vars(LockGranted(t))
    /\ \A t \in Tasks : WF_vars(RateSleepOver(t))
    /\ \A t \in Tasks : WF_vars(LeaveDomain(t))
    /\ WF_vars(Tick)
    /\ WF_vars(SleepElapses)

SpecLimiterFair == InitLimiter /\ [][NextLimiterFair]_vars /\ FairLimiter

\* ---- callers of the robots lookup alone
RobotsTasks == 1..2

InitRobots ==
    /\ InitState
    /\ now = 0
    /\ MAX_CONCURRENT_REQUESTS_PER_DOMAIN = 1
    /\ RESPECT_ROBOTS_TXT = TRUE
    /\ robotsTxt = [d \in Domains |-> "open"]
    /\ max_retries_override = [t \in Tasks |-> None]
    /\ entry = [t \in Tasks |-> IF t \in RobotsTasks THEN "robots" ELSE "none"]
    /\ dom = [t \in Tasks |-> NoDomain]
    /\ path = [t \in Tasks |-> "/public/x"]
    /\ usePlaywright = [t \in Tasks |-> FALSE]

NextRobots ==
    \/ PostInit
    \/ \E t \in Tasks, d \in Domains : RobotsLookup(t, d)
    \/ \E t \in Tasks : RobotsLockGranted(t)
    \/ \E t \in Tasks, r \in RobotsResponses : RobotsHttpsResponse(t, r)
    \/ \E t \in Tasks, r \in RobotsResponses : RobotsHttpResponse(t, r)
    \/ \E t \in Tasks : LookupAgain(t)
    \/ \E t \in Tasks : Cancel(t)

SpecRobots == InitRobots /\ [][NextRobots]_vars

\* ---- concurrent callers of the robots lookup of one uncached domain,
\* one lookup each, nobody cancelled
InitSingleFlight ==
    /\ InitState
    /\ now = 0
    /\ MAX_CONCURRENT_REQUESTS_PER_DOMAIN = 1
    /\ RESPECT_ROBOTS_TXT = TRUE
    /\ robotsTxt = [d \in Domains |-> "open"]
    /\ max_retries_override = [t \in Tasks |-> None]
    /\ entry = [t \in Tasks |-> "robots"]
    /\ dom = [t \in Tasks |-> NoDomain]
    /\ path = [t \in Tasks |-> "/public/x"]
    /\ usePlaywright = [t \in Tasks |-> FALSE]

NextSingleFlight ==
    \/ PostInit
    \/ \E t \in Tasks : RobotsLookup(t, "a.com")
    \/ \E t \in Tasks : RobotsLockGranted(t)
    \/ \E t \in Tasks, r \in RobotsResponses : RobotsHttpsResponse(t, r)
    \/ \E t \in Tasks, r \in RobotsResponses : RobotsHttpResponse(t, r)

SpecSingleFlight == InitSingleFlight /\ [][NextSingleFlight]_vars

\* ---- callers of a function wrapped by async_retry
RetryTasks == 1..2

InitRetry ==
    /\ InitState
    /\ now = 0
    /\ MAX_CONCURRENT_REQUESTS_PER_DOMAIN = 1
    /\ RESPECT_ROBOTS_TXT = TRUE
    /\ robotsTxt = [d \in Domains |-> "open"]
    /\ max_retries_override \in [Tasks -> {None} \cup 0..MaxBudget]
    /\ \A t \in Tasks \ RetryTasks : max_retries_override[t] = None
    /\ entry = [t \in Tasks |-> IF t \in RetryTasks THEN "retry" ELSE "none"]
    /\ dom = [t \in Tasks |-> NoDomain]
    /\ path = [t \in Tasks |-> "/public/x"]
    /\ usePlaywright = [t \in Tasks |-> FALSE]

NextRetry ==
    \/ \E t \in Tasks : CallRetry(t)
    \/ \E t \in Tasks, o \in OpOutcomes : OpReturns(t, o)
    \/ \E t \in Tasks : BackoffOver(t)
    \/ \E t \in Tasks : Cancel(t)
    \/ Tick

SpecRetry == InitRetry /\ [][NextRetry]_vars

\* ---- fetches of the browser strategy on their way to a page
InitBrowser ==
    /\ InitState
    /\ now = 0
    /\ MAX_CONCURRENT_REQUESTS_PER_DOMAIN = 1
    /\ RESPECT_ROBOTS_TXT = TRUE
    /\ robotsTxt = [d \in Domains |-> "open"]
    /\ max_retries_override = [t \in Tasks |-> None]
    /\ entry = [t \in Tasks |-> "browser"]
    /\ dom = [t \in Tasks |-> NoDomain]
    /\ path = [t \in Tasks |-> "/public/x"]
    /\ usePlaywright = [t \in Tasks |-> TRUE]

NextBrowser ==
    \/ \E t \in Tasks : EnsurePlaywrightBrowser(t)
    \/ \E t \in Tasks, ok \in BOOLEAN : PlaywrightStarted(t, ok)
    \/ \E t \in Tasks, ok \in BOOLEAN : BrowserLaunched(t, ok)
    \/ \E b \in Tasks : BrowserDisconnects(b)

SpecBrowser == InitBrowser /\ [][NextBrowser]_vars

\* ---- callers of _fetch_with_playwright
PlaywrightTasks == 1..2

InitPlaywright ==
    /\ InitState
    /\ now = 0
    /\ MAX_CONCURRENT_REQUESTS_PER_DOMAIN = 1
    /\ RESPECT_ROBOTS_TXT = TRUE
    /\ robotsTxt = [d \in Domains |-> "open"]
    /\ max_retries_override = [t \in Tasks |-> None]
    /\ entry = [t \in Tasks |->
                  IF t \in PlaywrightTasks THEN "playwright_fetch" ELSE "none"]
    /\ dom = [t \in Tasks |-> NoDomain]
    /\ path = [t \in Tasks |-> "/public/x"]
    /\ usePlaywright = [t \in Tasks |-> TRUE]

NextPlaywright ==
    \/ \E t \in Tasks : EnsurePlaywrightBrowser(t)
    \/ \E t \in Tasks, ok \in BOOLEAN : PlaywrightStarted(t, ok)
    \/ \E t \in Tasks, ok \in BOOLEAN : BrowserLaunched(t, ok)
    \/ \E t \in Tasks, ok \in BOOLEAN : ContextCreated(t, ok)
    \/ \E t \in Tasks, ok \in BOOLEAN : PageSetUp(t, ok)
    \/ \E t \in Tasks, o \in PageOutcomes : Navigated(t, o)
    \/ \E t \in Tasks : ContextClosed(t)
    \/ \E t \in Tasks : CancelPlaywrightFetch(t)

SpecPlaywright == InitPlaywright /\ [][NextPlaywright]_vars

\* ---- lookups of robots.txt, served over https by every domain, next to
\* an owner that uses the browser and then calls close(), once
InitClose ==
    /\ InitState
    /\ now = 0
    /\ MAX_CONCURRENT_REQUESTS_PER_DOMAIN = 1
    /\ RESPECT_ROBOTS_TXT = TRUE
    /\ robotsTxt = [d \in Domains |-> "disallow_private"]
    /\ max_retries_override = [t \in Tasks |-> None]
    /\ entry = [t \in Tasks |-> IF t = 1 THEN "browser" ELSE "robots"]
    /\ dom = [t \in Tasks |-> NoDomain]
    /\ path = [t \in Tasks |-> "/public/x"]
    /\ usePlaywright = [t \in Tasks |-> FALSE]

NextClose ==
    \/ PostInit
    \/ \E t \in Tasks, d \in Domains : RobotsLookup(t, d)
    \/ \E t \in Tasks : RobotsLockGranted(t)
    \/ \E t \in Tasks, r \in RobotsResponses : RobotsHttpsResponse(t, r)
    \/ \E t \in Tasks : LookupAgain(t)
    \/ \E t \in Tasks : EnsurePlaywrightBrowser(t)
    \/ \E t \in Tasks, ok \in BOOLEAN : PlaywrightStarted(t, ok)
    \/ \E t \in Tasks, ok \in BOOLEAN : BrowserLaunched(t, ok)
    \/ \E t \in Tasks : TurnToClose(t)
    \/ \E t \in Tasks : CloseCalled(t)
    \/ \E t \in Tasks : BrowserClosed(t)
    \/ \E t \in Tasks : PlaywrightStopped(t)

SpecClose == InitClose /\ [][NextClose]_vars

\* ---- callers of fetch_page
FetchTasks == 1..2
FetchDomains == {"a.com", "b.com"}

Init ==
    /\ InitState
    /\ now = MaxStartTime
    /\ MAX_CONCURRENT_REQUESTS_PER_DOMAIN \in 1..MaxCeiling
    /\ RESPECT_ROBOTS_TXT \in BOOLEAN
    /\ robotsTxt \in [Domains -> RobotsSites]
    /\ \A d \in Domains \ {"a.com"} : robotsTxt[d] = "open"
    /\ max_retries_override = [t \in Tasks |-> None]
    /\ entry = [t \in Tasks |-> IF t \in FetchTasks THEN "fetch_page" ELSE "none"]
    /\ dom \in [Tasks -> FetchDomains \cup {NoDomain, MalformedUrl}]
    /\ dom[1] = "a.com"
    /\ \A t \in Tasks \ FetchTasks : dom[t] = NoDomain
    /\ path \in [Tasks -> Paths]
    /\ \A t \in Tasks \ {1} : path[t] = "/private/x"
    /\ usePlaywright \in [Tasks -> BOOLEAN]
    /\ \A t \in Tasks \ {1} : usePlaywright[t] = FALSE

Next ==
    \/ PostInit
    \/ \E t \in Tasks : FetchPage(t)
    \/ \E t \in Tasks : RobotsLockGranted(t)
    \/ \E t \in Tasks, r \in RobotsResponses : RobotsHttpsResponse(t, r)
    \/ \E t \in Tasks, r \in RobotsResponses : RobotsHttpResponse(t, r)
    \/ \E t \in Tasks : SemaphoreGranted(t)
    \/ \E t \in Tasks : LockGranted(t)
    \/ \E t \in Tasks : RateSleepOver(t)
    \/ \E t \in Tasks, o \in HttpxOutcomes \cup PlaywrightOutcomes : StrategyReturns(t, o)
    \/ \E t \in Tasks : BackoffOver(t)
    \/ \E t \in Tasks : Cancel(t)
    \/ Tick

Spec == Init /\ [][Next]_vars


\* ------------------------------------------------------------------ C1
PermitsHeld(d) == {t \in Tasks : dom[t] = d /\ permits[t] > 0}
InContext(d) == {t \in Tasks : dom[t] = d /\ pc[t] \in {"holding", "fetching"}}

\* C1: for every domain, the callers that hold a permit of the domain
\* (acquired and not yet released) never number more than
\* MAX_CONCURRENT_REQUESTS_PER_DOMAIN
C1_ConcurrencyCeiling ==
    \A d \in Domains :
        /\ Cardinality(PermitsHeld(d)) <= MAX_CONCURRENT_REQUESTS_PER_DOMAIN
        /\ Cardinality(InContext(d)) <= MAX_CONCURRENT_REQUESTS_PER_DOMAIN

\* ceiling 1, three callers on one domain: one is inside, two are queued
C1_Witness ==
    /\ MAX_CONCURRENT_REQUESTS_PER_DOMAIN = 1
    /\ Cardinality(InContext("a.com")) = 1
    /\ Cardinality(SemWaiters("a.com")) = 2

\* ------------------------------------------------------------------ C2
\* C2: the start times recorded by two consecutive completed acquires of
\* a domain differ by at least min_delay
C2_RateSpacing ==
    \A d \in Domains :
        recorded[d] >= 2 =>
            lastRequestTime[d] - prevRequestTime[d] >= MIN_DELAY_PER_DOMAIN_SECONDS

\* two acquires of one domain completed exactly min_delay apart under a
\* ceiling of 2, the second one having waited for the domain lock
C2_Witness ==
    /\ MAX_CONCURRENT_REQUESTS_PER_DOMAIN = 2
    /\ recorded["a.com"] >= 2
    /\ lastRequestTime["a.com"] - prevRequestTime["a.com"] = MIN_DELAY_PER_DOMAIN_SECONDS
    /\ Cardinality(InContext("a.com")) = 2

\* ------------------------------------------------------------------ C3
\* C3: once no fetch of a domain is in flight (every fetch_page call for
\* it has returned or was cancelled), the semaphore of the domain is back
\* at its ceiling: every permit taken was released
C3_PermitsReturned ==
    \A d \in DOMAIN domainSemaphores :
        (\A t \in Tasks : dom[t] = d => pc[t] \in {"idle", "done", "cancelled"})
            => domainSemaphores[d] = MAX_CONCURRENT_REQUESTS_PER_DOMAIN

\* ------------------------------------------------------------------ C4
\* C4: a robots verdict of disallow is not retried: the body of
\* fetch_page_content_with_retry ran once, no backoff sleep took place and
\* the call is over with the 403 result
C4_DisallowNotRetried ==
    \A t \in Tasks :
        verdict[t] = "disallowed" =>
            /\ invocations[t] = 1
            /\ sleeps[t] = 0
            /\ pc[t] \in {"done", "cancelled"}

\* ------------------------------------------------------------------ C5
\* C5: with RESPECT_ROBOTS_TXT on and a domain whose robots.txt disallows
\* /private/, a fetch_page of a private URL takes no permit, is never
\* requested and ends with (None, 403, requested URL), and a fetch_page of
\* a public URL of the domain that has ended went through the rate limiter
C5_RobotsEnforcement ==
    \A t \in Tasks :
        (/\ RESPECT_ROBOTS_TXT
         /\ entry[t] = "fetch_page"
         /\ dom[t] \in Domains
         /\ robotsTxt[dom[t]] = "disallow_private") =>
            /\ path[t] = "/private/x" =>
                /\ ~taken[t]
                /\ pc[t] # "fetching"
                /\ pc[t] = "done" =>
                     result[t] = [body |-> "none", status |-> 403, url |-> "requested"]
            /\ (path[t] = "/public/x" /\ pc[t] = "done") => taken[t]

\* ------------------------------------------------------------------ C6
\* C6: concurrent lookups of one uncached domain cause exactly one fetch
\* of its robots.txt: never two fetches in flight, and one fetch made
\* once every lookup has ended
C6_SingleFlight ==
    /\ Cardinality({t \in Tasks : pc[t] \in {"robots_https", "robots_http"}}) <= 1
    /\ (\A t \in Tasks : pc[t] = "done") => robotsFetches["a.com"] = 1

C9_FailOpen ==
    \A t \in Tasks :
        (/\ RESPECT_ROBOTS_TXT
         /\ entry[t] = "fetch_page"
         /\ dom[t] \in Domains
         /\ robotsTxt[dom[t]] = "unobtainable"
         /\ pc[t] = "done") =>
            /\ verdict[t] = "allowed"
            /\ taken[t]

\* ----------------------------------------------------------------- C10
\* C10: a wrapped operation whose every invocation raised a retryable
\* error was invoked N + 1 times and slept N times, N being
\* max_retries_override or, without an override, crawler.MAX_RETRIES, and
\* its call raised that error itself, not wrapped in another
C10_RetryBudget ==
    \A t \in Tasks :
        (/\ entry[t] = "retry"
         /\ pc[t] = "done"
         /\ result[t].body = "raised"
         /\ result[t].url # "ValueError") =>
            LET N == IF max_retries_override[t] = None THEN MAX_RETRIES
                     ELSE max_retries_override[t]
            IN  /\ result[t].url = "CustomRetryException"
                /\ invocations[t] = N + 1
                /\ sleeps[t] = N

\* an override of 2 was exhausted by 3 invocations, and a call without
\* override by MAX_RETRIES + 1 invocations
C10_Witness ==
    \E t, u \in Tasks :
        /\ entry[t] = "retry"
        /\ pc[t] = "done"
        /\ result[t].url = "CustomRetryException"
        /\ max_retries_override[t] = 2
        /\ invocations[t] = 3
        /\ entry[u] = "retry"
        /\ pc[u] = "done"
        /\ result[u].url = "CustomRetryException"
        /\ max_retries_override[u] = None
        /\ invocations[u] = MAX_RETRIES + 1

\* ------------------------------------------------------------------ C11
\* C11: an error whose kind is not in the retryable set leaves async_retry at
\* once: as soon as the wrapped operation has raised it, the call is over with
\* that error raised to the caller, the attempt that raised it was not
\* followed by a backoff sleep (one invocation more than sleeps in all, so
\* exactly one invocation and no sleep when the first attempt raises it),
\* whatever the retry budget.
C11_NonRetryablePropagates ==
    \A t \in Tasks :
        (entry[t] = "retry" /\ lastError[t].kind = "ValueError") =>
            /\ pc[t] = "done"
            /\ result[t] = [body |-> "raised", status |-> 0, url |-> "ValueError"]
            /\ invocations[t] = sleeps[t] + 1
            /\ (attempt[t] = 0 => invocations[t] = 1 /\ sleeps[t] = 0)

\* a call with budget 2 raised the non-retryable error in its first attempt
C11_Witness ==
    \E t \in Tasks :
        /\ entry[t] = "retry" /\ budget[t] = 2 /\ pc[t] = "done"
        /\ lastError[t].kind = "ValueError"
        /\ invocations[t] = 1 /\ sleeps[t] = 0
        /\ result[t].body = "raised"

\* ------------------------------------------------------------------ C12
\* C12: a call of fetch_page that has ended has returned a triple (a body
\* that is null or a page, a status, a URL) and not raised an exception to
\* its caller, and it has left nothing behind that another fetch would wait
\* for: no rate-limit permit, no domain lock, no robots fetch lock.
C12_AlwaysTriple ==
    \A t \in Tasks :
        (entry[t] = "fetch_page" /\ pc[t] = "done") =>
            /\ result[t].body \in {"none"} \cup Pages
            /\ result[t].url \in {"requested", "request_url", "final"}
            /\ permits[t] = 0
            /\ \A d \in Domains : domainLockHolder[d] # t /\ robotsLockHolder[d] # t

\* ------------------------------------------------------------------ C13
\* C13: in every triple fetch_page has returned, with either strategy, the
\* body is null exactly when the status is outside 200..299.
C13_BodyIffSuccess ==
    \A t \in Tasks :
        (entry[t] = "fetch_page" /\ pc[t] = "done"
            /\ result[t].body \in {"none"} \cup Pages) =>
            (result[t].body = "none" <=> result[t].status \notin 200..299)

\* ------------------------------------------------------------------ C14
\* C14: with the httpx strategy, a call of fetch_page that ended on a
\* timeout of its last attempt made every attempt of its budget and returned
\* a null body with status 408; one that ended on any other transport error
\* made every attempt and returned a null body with status 599.
C14_HttpxSentinels ==
    \A t \in Tasks :
        (entry[t] = "fetch_page" /\ ~usePlaywright[t] /\ pc[t] = "done") =>
            /\ lastError[t].kind = "TimeoutException" =>
                    /\ result[t].body = "none" /\ result[t].status = 408
                    /\ invocations[t] = MAX_RETRIES + 1
            /\ lastError[t].kind = "RequestError" =>
                    /\ result[t].body = "none" /\ result[t].status = 599
                    /\ invocations[t] = MAX_RETRIES + 1

\* one fetch ended on a timeout and another on a connection error, each
\* after all its attempts
C14_Witness ==
    \E t, u \in Tasks :
        /\ entry[t] = "fetch_page" /\ ~usePlaywright[t] /\ pc[t] = "done"
        /\ lastError[t].kind = "TimeoutException" /\ result[t].status = 408
        /\ invocations[t] = MAX_RETRIES + 1 /\ sleeps[t] = MAX_RETRIES
        /\ entry[u] = "fetch_page" /\ ~usePlaywright[u] /\ pc[u] = "done"
        /\ lastError[u].kind = "RequestError" /\ result[u].status = 599
        /\ invocations[u] = MAX_RETRIES + 1 /\ sleeps[u] = MAX_RETRIES

\* ------------------------------------------------------------------ C15
\* C15: the timeout sentinel is the same for both strategies: a call of
\* fetch_page that ended on a navigation timeout of the browser strategy
\* returned a null body with status 408, as one that ended on a timeout of
\* the httpx strategy does.
C15_TimeoutSentinelAnyStrategy ==
    \A t \in Tasks :
        (entry[t] = "fetch_page" /\ pc[t] = "done"
            /\ lastError[t].kind \in {"TimeoutException", "PlaywrightTimeoutError"}) =>
            result[t].body = "none" /\ result[t].status = 408

\* ------------------------------------------------------------------ C16
\* C16: a call of fetch_page with the browser strategy that ended on a
\* browser error has run the fetch MAX_RETRIES + 1 times, with MAX_RETRIES
\* backoff sleeps between them, and returned a null body, status 598 and the
\* requested URL.
C16_BrowserErrorExhausts ==
    \A t \in Tasks :
        (entry[t] = "fetch_page" /\ usePlaywright[t] /\ pc[t] = "done"
            /\ "PlaywrightBaseError" \in ClassesOf(lastError[t].kind)) =>
            /\ invocations[t] = MAX_RETRIES + 1
            /\ sleeps[t] = MAX_RETRIES
            /\ result[t] = [body |-> "none", status |-> 598, url |-> "requested"]

\* a browser fetch gave up on a browser error after all its attempts
C16_Witness ==
    \E t \in Tasks :
        /\ entry[t] = "fetch_page" /\ usePlaywright[t] /\ pc[t] = "done"
        /\ lastError[t] = Err("PlaywrightBaseError")
        /\ invocations[t] = MAX_RETRIES + 1 /\ sleeps[t] = MAX_RETRIES
        /\ result[t].status = 598

\* ------------------------------------------------------------------ C17
\* C17: an exception inside the browser strategy that is neither a browser
\* timeout nor another browser error is surfaced by fetch_page as status
\* 597, not as the 598 of a navigation error.
C17_InternalErrorSentinel ==
    \A t \in Tasks :
        (entry[t] = "fetch_page" /\ usePlaywright[t] /\ pc[t] = "done"
            /\ CauseOf(lastError[t]) = "Exception") =>
            result[t].body = "none" /\ result[t].status = 597

\* ------------------------------------------------------------------ C18
\* C18: for an input from which no domain can be derived, fetch_page returns
\* (None, 0, the input URL) and has not checked robots.txt, taken a
\* rate-limit permit or entered the retry wrapper.
C18_NoDomainSentinel ==
    \A t \in Tasks :
        (entry[t] = "fetch_page" /\ pc[t] = "done" /\ dom[t] \in {NoDomain, MalformedUrl}) =>
            /\ result[t] = [body |-> "none", status |-> 0, url |-> "requested"]
            /\ verdict[t] = "none"
            /\ permits[t] = 0 /\ ~taken[t]
            /\ invocations[t] = 0 /\ sleeps[t] = 0

\* ------------------------------------------------------------------ C19
\* C19: with the httpx strategy a non-2xx response is retried like any
\* retryable failure: a call of fetch_page that ended on a non-2xx response
\* made every attempt of its budget and returned a null body with the status
\* code of that last response; a call that ended on a response it returned
\* the body of, after however many failed attempts, returned it with a 2xx
\* status.
C19_StatusErrorRetried ==
    \A t \in Tasks :
        (entry[t] = "fetch_page" /\ ~usePlaywright[t] /\ pc[t] = "done") =>
            /\ lastError[t].kind = "HTTPStatusError" =>
                    /\ invocations[t] = MAX_RETRIES + 1
                    /\ sleeps[t] = MAX_RETRIES
                    /\ lastError[t].status \notin 200..299
                    /\ result[t] = [body |-> "none", status |-> lastError[t].status,
                                    url |-> "request_url"]
            /\ result[t].body \in Pages =>
                    /\ result[t].status \in 200..299
                    /\ lastError[t] = NoError
                    /\ invocations[t] = sleeps[t] + 1

\* one fetch gave up on a 404 after all its attempts, another got its page
\* in the attempt after a failed one
C19_Witness ==
    \E t, u \in Tasks :
        /\ entry[t] = "fetch_page" /\ ~usePlaywright[t] /\ pc[t] = "done"
        /\ lastError[t] = StatusErr(404)
        /\ invocations[t] = MAX_RETRIES + 1
        /\ result[t] = [body |-> "none", status |-> 404, url |-> "request_url"]
        /\ entry[u] = "fetch_page" /\ ~usePlaywright[u] /\ pc[u] = "done"
        /\ invocations[u] = 2 /\ sleeps[u] = 1
        /\ result[u] = [body |-> "html", status |-> 200, url |-> "final"]

\* ------------------------------------------------------------------ C20
\* C20: the headless browser is a lazily started singleton: whatever the
\* number of fetches and however their first uses interleave, at most one
\* playwright instance is ever started, at most one launched browser is
\* connected at any time, and the fetches that hold a connected browser all
\* hold the same one, the one the class refers to.
C20_BrowserSingleton ==
    /\ instancesStarted <= 1
    /\ Cardinality(connectedBrowsers) <= 1
    /\ \A t \in Tasks :
            usedBrowser[t] \in connectedBrowsers => usedBrowser[t] = browser

\* ------------------------------------------------------------------ C21
\* C21: every browser context a call of the browser strategy opened has
\* been closed, once, when the call has ended, whichever way it ended
\* (page returned, navigation timeout, browser error, no response object,
\* an error during page setup after the context was created, cancellation),
\* no context is closed more often than opened, and the browser a fetch was
\* given is still connected after the fetch.
C21_ContextClosedOnce ==
    \A t \in Tasks :
        /\ contextsClosed[t] <= contextsOpened[t]
        /\ usedBrowser[t] # None => usedBrowser[t] \in connectedBrowsers
        /\ (entry[t] = "playwright_fetch" /\ pc[t] \in {"done", "cancelled"}) =>
                contextsClosed[t] = contextsOpened[t]

\* ------------------------------------------------------------------ C22
\* C22: a call of close() ends by returning, and at that moment the robots
\* cache and the table of robots fetch locks are empty and the browser
\* shutdown has run once for that one call; and as long as close() has not
\* been called, a domain leaves the robots cache only as the oldest entry of
\* a full cache, in the step that stores another domain.
C22_CloseClears ==
    [][/\ \A t \in Tasks :
            (entry[t] = "close" /\ pc[t] # "done" /\ pc'[t] = "done") =>
                /\ result'[t].body = "closed"
                /\ robotsCache' = << >>
                /\ robotsFetchLocks' = {}
                /\ shutdowns' = 1
       /\ shutdowns' = 0 =>
            \A d \in CachedDomains :
                (\A i \in 1..Len(robotsCache') : robotsCache'[i].domain # d) =>
                    /\ Len(robotsCache) = ROBOTS_TXT_CACHE_SIZE
                    /\ robotsCache[1].domain = d
                    /\ Len(robotsCache') = ROBOTS_TXT_CACHE_SIZE
      ]_vars

\* ------------------------------------------------------------------ C23
\* C23: the CAPTCHA inspection only detects: whenever the strategy returned
\* a triple to the fetch chain, with a CAPTCHA phrase in the body or
\* without, fetch_page has returned that very triple (same body, status and
\* URL), in the attempt in which it was fetched, with no error raised.
C23_CaptchaDetectionOnly ==
    \A t \in Tasks :
        (entry[t] = "fetch_page" /\ fetched[t] # NoResult) =>
            /\ pc[t] = "done"
            /\ result[t] = fetched[t]
            /\ lastError[t] = NoError
            /\ invocations[t] = sleeps[t] + 1

\* a page with a CAPTCHA phrase was fetched in a first attempt and returned
C23_Witness ==
    \E t \in Tasks :
        /\ entry[t] = "fetch_page" /\ pc[t] = "done"
        /\ CaptchaFound(fetched[t].body)
        /\ result[t] = [body |-> "captcha_html", status |-> 200, url |-> "final"]
        /\ invocations[t] = 1 /\ sleeps[t] = 0

\* ------------------------------------------------------------------ C24
RobotsStates == {"robots_lock_wait", "robots_https", "robots_http"}

\* C24: with RESPECT_ROBOTS_TXT off no fetch_page call runs the robots
\* check: no robots.txt is requested, the robots cache and the table of
\* fetch locks stay as they were, no call waits in the check, gets a verdict
\* or fails in it, and every URL the strategy is fetching or has fetched,
\* disallowed by the site's rules or not, went through the rate limiter.
C24_RobotsOffNoCheck ==
    ~RESPECT_ROBOTS_TXT =>
        /\ \A d \in Domains : robotsFetches[d] = 0 /\ robotsLockHolder[d] = NoTask
        /\ robotsCache = << >> /\ useOrder = << >> /\ insertOrder = << >>
        /\ robotsFetchLocks = {}
        /\ \A t \in Tasks :
            /\ pc[t] \notin RobotsStates
            /\ verdict[t] = "none" /\ ~wasAllowed[t]
            /\ lastError[t].kind \notin {"RobotsTxtDisallowedError", "AttributeError"}
            /\ (pc[t] = "fetching" \/ fetched[t] # NoResult) =>
                    taken[t] /\ dom[t] \in DOMAIN domainSemaphores

\* with the setting off, a URL the rules of its site disallow was fetched
\* with a permit of its domain
C24_Witness ==
    /\ ~RESPECT_ROBOTS_TXT
    /\ \E t \in Tasks :
        /\ entry[t] = "fetch_page" /\ dom[t] \in Domains
        /\ robotsTxt[dom[t]] = "disallow_private" /\ path[t] = "/private/x"
        /\ pc[t] = "done" /\ taken[t]
        /\ result[t].status = 200 /\ result[t].body \in Pages

\* ------------------------------------------------------------------ C25
TransportFailure(e) ==
    ClassesOf(e.kind) \cap {"RequestError", "TimeoutException",
                            "PlaywrightBaseError"} # {}

\* C25: a transport error, a timeout and a browser error are retried alike:
\* a call of fetch_page that ended on one of them, so in particular one in
\* which that failure came back in every attempt, ran the fetch chain
\* MAX_RETRIES + 1 times with MAX_RETRIES backoff sleeps and returned a
\* sentinel (null body, status 408, 598 or 599); and at every moment of
\* every call each attempt but the first was preceded by one backoff sleep
\* (a call counts one sleep more than that while it is in a backoff sleep,
\* or after it was cancelled in one).
C25_SamePolicyForFailures ==
    \A t \in Tasks :
        entry[t] = "fetch_page" =>
            /\ (pc[t] = "done" /\ TransportFailure(lastError[t])) =>
                    /\ invocations[t] = MAX_RETRIES + 1
                    /\ sleeps[t] = MAX_RETRIES
                    /\ result[t].body = "none"
                    /\ result[t].status \in {408, 598, 599}
            /\ invocations[t] <= MAX_RETRIES + 1
            /\ IF pc[t] = "backoff_sleep" THEN sleeps[t] = invocations[t]
               ELSE IF pc[t] = "cancelled"
                    THEN sleeps[t] \in {invocations[t] - 1, invocations[t]}
               ELSE invocations[t] > 0 => sleeps[t] = invocations[t] - 1

\* a browser fetch and an httpx fetch both gave up after all their attempts,
\* one on a browser error and one on a connection error
C25_Witness ==
    \E t, u \in Tasks :
        /\ entry[t] = "fetch_page" /\ usePlaywright[t] /\ pc[t] = "done"
        /\ "PlaywrightBaseError" \in ClassesOf(lastError[t].kind)
        /\ entry[u] = "fetch_page" /\ ~usePlaywright[u] /\ pc[u] = "done"
        /\ lastError[u].kind = "RequestError"
        /\ invocations[t] = MAX_RETRIES + 1 /\ sleeps[t] = MAX_RETRIES
        /\ invocations[u] = MAX_RETRIES + 1 /\ sleeps[u] = MAX_RETRIES
        /\ result[t].status = 598 /\ result[u].status = 599

\* ------------------------------------------------------------------ C26
BeforeLimiter == {"idle", "backoff_sleep"} \cup RobotsStates
LimiterStates == {"sem_wait", "lock_wait", "rate_sleep"}

\* C26: every step of every fetch_page call keeps the phases of an attempt
\* in the order robots check, rate limiter, strategy, inspection:
\* (1) the call enters the rate limiter only from the start of an attempt or
\*     from the robots check, without a permit, and with RESPECT_ROBOTS_TXT
\*     on only with the verdict "allowed" from the parser now in the cache;
\* (2) the strategy runs only with a permit held, and when it has ended the
\*     permit is released;
\* (3) a triple reaches the inspection and is returned only at the step in
\*     which the strategy returned it, without error;
\* (4) an attempt that fails in the robots check requests no permit and
\*     fetches nothing, and one that fails in the strategy returns no triple.
C26_PhaseOrder ==
    [][\A t \in Tasks :
        entry[t] = "fetch_page" =>
            /\ (pc[t] \notin LimiterStates \cup {"fetching"}
                    /\ pc'[t] \in LimiterStates \cup {"fetching"}) =>
                    /\ pc[t] \in BeforeLimiter
                    /\ permits[t] = 0
                    /\ RESPECT_ROBOTS_TXT =>
                            /\ verdict'[t] = "allowed"
                            /\ dom[t] \in CachedDomains'
                            /\ CanFetch(CacheGet(dom[t])', path[t])
            /\ pc'[t] = "fetching" =>
                    /\ permits'[t] = 1
                    /\ pc[t] \in BeforeLimiter \cup LimiterStates \cup {"fetching"}
            /\ (pc[t] = "fetching" /\ pc'[t] \notin {"fetching", "cancelled"}) =>
                    permits'[t] = 0
            /\ fetched'[t] # fetched[t] =>
                    /\ pc[t] = "fetching" /\ pc'[t] = "done"
                    /\ lastError'[t] = NoError
                    /\ result'[t] = fetched'[t]
            /\ (pc[t] \in BeforeLimiter /\ pc'[t] \in {"backoff_sleep", "done"}
                    /\ pc'[t] # pc[t]) =>
                    /\ permits'[t] = 0 /\ domainSemaphores' = domainSemaphores
                    /\ fetched'[t] = NoResult
            /\ (pc[t] = "fetching" /\ pc'[t] \in {"backoff_sleep", "done"}
                    /\ lastError'[t] # NoError) =>
                    fetched'[t] = NoResult
      ]_vars

\* a call whose first attempt failed in the strategy is in the strategy
\* again, with a permit, after a robots check that allowed its URL
C26_Witness ==
    /\ RESPECT_ROBOTS_TXT
    /\ \E t \in Tasks :
        /\ entry[t] = "fetch_page" /\ pc[t] = "fetching"
        /\ invocations[t] = 2 /\ sleeps[t] = 1
        /\ verdict[t] = "allowed" /\ permits[t] = 1
        /\ dom[t] \in CachedDomains

\* ------------------------------------------------------------------ C27
\* the callers that have read the last-request time of d and not yet
\* written it
InDelaySection(d) == {t \in Tasks : dom[t] = d /\ pc[t] = "rate_sleep"}

\* C27: per domain, read - compare - sleep - write of the last-request time
\* is a critical section: at no step is more than one caller of a domain
\* between its read and its write, that caller holds the domain's lock, and
\* a caller reads the last-request time of a domain (to sleep on it or to
\* overwrite it at once) only when no other caller of the domain is between
\* its read and its write.
C27_DelayCriticalSection ==
    [][\A d \in Domains :
        /\ Cardinality(InDelaySection(d)') <= 1
        /\ \A t \in InDelaySection(d)' : domainLockHolder'[d] = t
        /\ \A t \in Tasks :
            (/\ dom'[t] = d
             /\ pc[t] \in {"idle", "sem_wait", "lock_wait"}
             /\ pc'[t] \in {"rate_sleep", "holding", "fetching"}) =>
                /\ InDelaySection(d) = {}
                /\ domainLockHolder[d] = NoTask
      ]_vars

\* under a ceiling of 2, one caller sleeps in the section of a domain while
\* another caller of that domain, with its permit, waits for the lock
C27_Witness ==
    /\ MAX_CONCURRENT_REQUESTS_PER_DOMAIN = 2
    /\ \E t, u \in Tasks :
        /\ t # u /\ dom[t] = "a.com" /\ dom[u] = "a.com"
        /\ pc[t] = "rate_sleep" /\ domainLockHolder["a.com"] = t
        /\ pc[u] = "lock_wait" /\ permits[u] = 1

\* ------------------------------------------------------------------ C28
RobotsRequestStates == {"robots_https", "robots_http"}

C29_NoHttpAfter404 ==
    \A t \in Tasks :
        (entry[t] = "robots" /\ httpsStatus[t] = 404) =>
            /\ pc[t] # "robots_http"
            /\ pc[t] = "done" => result[t].body = Permissive

\* ------------------------------------------------------------------ C30
\* C30: a call of a wrapped operation that has returned a value returned the
\* value of its last invocation, the k-th with 1 <= k <= budget + 1, after
\* exactly k invocations and k - 1 backoff sleeps; a call that has raised
\* also counts one sleep less than invocations (no sleep after the final
\* failure); and once a call is over it makes no further invocation and no
\* further sleep, and its result stays.
C30_SuccessOnKth ==
    [][\A t \in Tasks :
        entry[t] = "retry" =>
            /\ (pc'[t] = "done" /\ result'[t].body = "value") =>
                    /\ result'[t] = OpValue(invocations'[t])
                    /\ invocations'[t] \in 1..(budget'[t] + 1)
                    /\ sleeps'[t] = invocations'[t] - 1
                    /\ attempt'[t] = invocations'[t] - 1
            /\ (pc'[t] = "done" /\ result'[t].body = "raised") =>
                    sleeps'[t] = invocations'[t] - 1
            /\ pc[t] = "done" =>
                    /\ pc'[t] = "done"
                    /\ invocations'[t] = invocations[t]
                    /\ sleeps'[t] = sleeps[t]
                    /\ result'[t] = result[t]
      ]_vars

\* a call with budget 2 got its value from the third invocation, after two
\* failures and two sleeps, and another step was taken since
C30_Witness ==
    \E t, u \in Tasks :
        /\ entry[t] = "retry" /\ pc[t] = "done" /\ budget[t] = 2
        /\ result[t] = OpValue(3)
        /\ invocations[t] = 3 /\ sleeps[t] = 2
        /\ t # u /\ pc[u] = "done"

\* ------------------------------------------------------------------ C31
\* the base of the k-th backoff sleep, and the widest jitter on it
BaseDelay(k) == delay_seconds * backoff_factor ^ (k - 1)
MaxJitter(d) == (d * jitter_factor_num) \div jitter_factor_den

\* C31: at every step in which a retried call begins a backoff sleep, its
\* k-th, the wrapper's delay is delay_seconds * backoff_factor^(k-1) (the
\* jitter of earlier sleeps is not in it), and the sleep lasts at least 0,
\* at least that delay minus jitter_factor times it and at most that delay
\* plus jitter_factor times it.
C31_BackoffSchedule ==
    [][\A t \in Tasks :
        (entry[t] = "retry" /\ sleeps'[t] = sleeps[t] + 1) =>
            LET k == sleeps'[t]
                d == BaseDelay(k)
                sleep == wakeAt'[t] - now
            IN  /\ pc'[t] = "backoff_sleep"
                /\ currentDelay[t] = d
                /\ sleep >= 0
                /\ sleep >= d - MaxJitter(d)
                /\ sleep <= d + MaxJitter(d)
      ]_vars

\* a call is in its second backoff sleep, of the shortest length the jitter
\* allows on the doubled delay, after a first sleep of the shortest length
C31_Witness ==
    \E t \in Tasks :
        /\ entry[t] = "retry" /\ pc[t] = "backoff_sleep" /\ sleeps[t] = 2
        /\ currentDelay[t] = delay_seconds * backoff_factor
        /\ now = 1
        /\ wakeAt[t] - now = BaseDelay(2) - MaxJitter(BaseDelay(2))

\* ------------------------------------------------------------------ C32
\* where a task is suspended in a sleep, in network I/O, or in the wait for
\* a semaphore or a per-domain lock
SuspendedStates ==
    {"sem_wait", "lock_wait", "rate_sleep", "fetching", "backoff_sleep",
     "robots_lock_wait", "robots_https", "robots_http", "op_running",
     "browser_closing", "playwright_stopping", "playwright_starting",
     "browser_launching"}

RECURSIVE SumPermits(_, _)
SumPermits(S, d) ==
    IF S = {} THEN 0
    ELSE LET t == CHOOSE x \in S : TRUE
         IN  (IF dom[t] = d THEN permits[t] ELSE 0) + SumPermits(S \ {t}, d)

\* C33: the limiter's state of a domain is made once and kept: at every
\* step the set of domains with a slot only grows; the semaphore of a
\* domain that has a slot always accounts for every permit out (value plus
\* permits held = the ceiling it was created with), so all acquires and
\* releases work on one semaphore; the domain's lock passes from a holder
\* only to nobody; and the last-request time is never set back.
C33_SlotCreatedOnce ==
    [][\A d \in Domains :
        /\ d \in DOMAIN domainSemaphores => d \in DOMAIN domainSemaphores'
        /\ d \in DOMAIN domainSemaphores' =>
                (domainSemaphores'[d] + SumPermits(Tasks, d)'
                    = MAX_CONCURRENT_REQUESTS_PER_DOMAIN)
        /\ domainLockHolder[d] # NoTask =>
                domainLockHolder'[d] \in {domainLockHolder[d], NoTask}
        /\ lastRequestTime'[d] >= lastRequestTime[d]
      ]_vars

\* under a ceiling of 2 both permits of a domain are out after two acquires
\* that began before either had returned, and a third caller waits
C33_Witness ==
    /\ MAX_CONCURRENT_REQUESTS_PER_DOMAIN = 2
    /\ "a.com" \in DOMAIN domainSemaphores
    /\ domainSemaphores["a.com"] = 0
    /\ \E t, u, w \in Tasks :
        /\ dom[t] = "a.com" /\ dom[u] = "a.com" /\ dom[w] = "a.com"
        /\ pc[t] = "rate_sleep" /\ pc[u] = "lock_wait" /\ pc[w] = "sem_wait"
        /\ permits[t] = 1 /\ permits[u] = 1 /\ permits[w] = 0

\* ------------------------------------------------------------------ C34
\* the domain a step of task t is about
StepDomain(t) == IF dom'[t] \in Domains THEN dom'[t] ELSE dom[t]

\* C34: rate limiting of different domains is independent. At every step
\* of a caller for a domain A: (1) the semaphore, the lock and the
\* last-request time of every other domain stay as they are; (2) if the
\* caller begins an acquire while A has a free permit, a free lock and
\* nobody queued, it does not queue, whatever is held, awaited or slept out
\* for other domains: it returns at once or sleeps, and then no longer than
\* A's own last-request time plus the largest delay.
C34_DomainsIndependent ==
    [][\A t \in Tasks :
        pc'[t] # pc[t] =>
            /\ \A B \in Domains \ {StepDomain(t)} :
                    /\ SemaphoreOf(B)' = SemaphoreOf(B)
                    /\ (B \in DOMAIN domainSemaphores') = (B \in DOMAIN domainSemaphores)
                    /\ domainLockHolder'[B] = domainLockHolder[B]
                    /\ lastRequestTime'[B] = lastRequestTime[B]
            /\ (/\ entry[t] = "acquire" /\ pc[t] = "idle"
                /\ SemaphoreOf(dom'[t]) > 0 /\ SemWaiters(dom'[t]) = {}
                /\ domainLockHolder[dom'[t]] = NoTask
                /\ LockWaiters(dom'[t]) = {}) =>
                    /\ pc'[t] \in {"rate_sleep", "holding"}
                    /\ permits'[t] = 1
                    /\ pc'[t] = "rate_sleep" =>
                            wakeAt'[t] <= lastRequestTime[dom'[t]]
                                            + MAX_DELAY_PER_DOMAIN_SECONDS
      ]_vars

\* under a ceiling of 1, a caller of a.com is through its acquire, completed
\* at this instant, while the one permit of b.com is held by a caller that
\* sleeps out b.com's delay and another caller of b.com waits for a permit
C34_Witness ==
    /\ MAX_CONCURRENT_REQUESTS_PER_DOMAIN = 1
    /\ \E t, u, w \in Tasks :
        /\ dom[t] = "a.com" /\ pc[t] = "holding"
        /\ lastRequestTime["a.com"] = now /\ recorded["a.com"] >= 1
        /\ dom[u] = "b.com" /\ pc[u] = "rate_sleep" /\ wakeAt[u] > now
        /\ dom[w] = "b.com" /\ pc[w] = "sem_wait"

\* ------------------------------------------------------------------ C35
RobotsFetchers(d) == {t \in Tasks : dom[t] = d /\ pc[t] \in RobotsRequestStates}

\* C35: robots.txt goes over the network only for a domain that is not in
\* the cache when its fetch lock is held. At every step: a fetch begins
\* only for a domain absent from the cache, by the task that then holds the
\* domain's fetch lock; a lookup of a cached domain ends in its own step
\* without a fetch; a fetch that ends puts the domain into the cache; and
\* after every step each domain has at most one fetch in progress and none
\* while it is cached, so a domain that was evicted and is asked for again
\* is fetched once more and is back in the cache.
C35_FetchOnlyWhenAbsent ==
    [][\A t \in Tasks :
        entry[t] = "robots" =>
            /\ (pc'[t] = "robots_https" /\ pc[t] # "robots_https") =>
                    /\ dom'[t] \notin CachedDomains
                    /\ robotsLockHolder'[dom'[t]] = t
            /\ (pc[t] = "idle" /\ pc'[t] # "idle" /\ dom'[t] \in CachedDomains) =>
                    /\ pc'[t] = "done"
                    /\ robotsFetches' = robotsFetches
                    /\ result'[t].body = CacheGet(dom'[t])
            /\ (pc[t] \in RobotsRequestStates /\ pc'[t] = "done") =>
                    /\ dom[t] \in CachedDomains'
                    /\ dom[t] \notin CachedDomains
            /\ \A d \in Domains :
                    /\ Cardinality(RobotsFetchers(d)') <= 1
                    /\ d \in CachedDomains' => RobotsFetchers(d)' = {}
      ]_vars

\* with nobody cancelled, a.com has been fetched twice and is in the full
\* cache, and the two other domains have been fetched as well: a.com was
\* evicted between its two fetches
C35_Witness ==
    /\ \A t \in Tasks : pc[t] # "cancelled"
    /\ robotsFetches["a.com"] = 2
    /\ "a.com" \in CachedDomains
    /\ Len(robotsCache) = ROBOTS_TXT_CACHE_SIZE
    /\ robotsFetches["b.com"] >= 1 /\ robotsFetches["c.com"] >= 1
    /\ \A d \in Domains : RobotsFetchers(d) = {}

\* ------------------------------------------------------------------ C36
\* C36: the crawler has its registry lock from construction on, so neither
\* a robots lookup that misses the cache nor close() ever ends with the
\* AttributeError of a missing _registry_lock.
C36_RegistryLockFromConstruction ==
    \A t \in Tasks :
        entry[t] \in {"robots", "close"} => lastError[t].kind # "AttributeError"

\* ------------------------------------------------------------------ C37
\* C37: a retried fetch holds no permit of its domain while it sleeps out a
\* retry backoff. In every state a task in its backoff sleep holds no
\* permit; at every step, a fetch attempt that fails into a backoff sleep
\* gives its permit back to the domain's semaphore in that step, the retry
\* that follows the sleep starts without a permit, and an attempt that
\* reaches its fetch strategy holds exactly one permit, has just recorded
\* the domain's request time and is at least min_delay after the request
\* recorded before it.
C37_NoPermitDuringBackoff ==
    /\ [](\A t \in Tasks : pc[t] = "backoff_sleep" => permits[t] = 0)
    /\ [][\A t \in Tasks :
            entry[t] = "fetch_page" =>
                /\ (pc[t] = "fetching" /\ pc'[t] = "backoff_sleep") =>
                        /\ permits[t] = 1 /\ permits'[t] = 0
                        /\ SemaphoreOf(dom[t])' = SemaphoreOf(dom[t]) + 1
                /\ (pc[t] = "backoff_sleep" /\ pc'[t] # "backoff_sleep") =>
                        permits'[t] <= 1
                /\ (pc[t] # "fetching" /\ pc'[t] = "fetching") =>
                        /\ permits'[t] = 1
                        /\ lastRequestTime'[dom[t]] = now
                        /\ recorded[dom[t]] >= 1 =>
                                now - lastRequestTime[dom[t]] >= MIN_DELAY_PER_DOMAIN_SECONDS
          ]_vars

\* under a ceiling of 1, one task sleeps out its backoff while another task
\* of the same domain, itself in a retry, holds the permit and sleeps the
\* domain's delay
C37_Witness ==
    /\ MAX_CONCURRENT_REQUESTS_PER_DOMAIN = 1
    /\ \E t, u \in Tasks :
            /\ t # u /\ dom[t] = dom[u] /\ dom[t] \in Domains
            /\ pc[u] = "backoff_sleep" /\ permits[u] = 0 /\ wakeAt[u] > now
            /\ attempt[t] >= 1 /\ sleeps[t] >= 1
            /\ pc[t] = "rate_sleep" /\ permits[t] = 1

\* ------------------------------------------------------------------ C38
AcquireWaits == {"sem_wait", "lock_wait", "rate_sleep"}

\* C38: when every caller that got a permit gives it back and nobody is
\* cancelled, every acquire that had to wait returns: a task queued for a
\* permit, queued for the domain lock or asleep in the delay section
\* eventually holds its permit outside acquire. The holder of a domain lock
\* is never itself queued: it only waits for its own sleep to end.
C38_AcquireReturns ==
    /\ \A t \in Tasks : (pc[t] \in AcquireWaits) ~> (pc[t] = "holding")
    /\ [](\A d \in Domains :
            domainLockHolder[d] # NoTask =>
                /\ pc[domainLockHolder[d]] = "rate_sleep"
                /\ dom[domainLockHolder[d]] = d
                /\ permits[domainLockHolder[d]] = 1)

\* after the last arrival, under a ceiling of 2, one caller of a.com sleeps
\* in the delay section with the lock, a second one holds a permit and is
\* queued for the lock, a third is queued for a permit
C38_Witness ==
    /\ MAX_CONCURRENT_REQUESTS_PER_DOMAIN = 2
    /\ now >= MaxTime
    /\ \E t, u, w \in Tasks :
            /\ dom[t] = "a.com" /\ pc[t] = "rate_sleep" /\ wakeAt[t] > now
            /\ domainLockHolder["a.com"] = t
            /\ dom[u] = "a.com" /\ pc[u] = "lock_wait" /\ permits[u] = 1
            /\ dom[w] = "a.com" /\ pc[w] = "sem_wait"

\* ------------------------------------------------------------------ C39
PermissiveCached(d) == d \in CachedDomains /\ CacheGet(d) = Permissive

\* C39: a permissive result is cached like a rule set. At every step: a
\* lookup of a domain cached as permissive, begun now or resumed from the
\* queue of the fetch lock (and not cancelled there), ends in that step
\* with the permissive answer,
\* starts no fetch whatever the site would now serve, and leaves the domain
\* in the cache as its most recently used entry; a fetch that ends with no
\* usable robots.txt stores the domain as the newest entry, and a store
\* into a full cache drops the oldest entry, permissive or not, so that the
\* cache never has more than ROBOTS_TXT_CACHE_SIZE entries.
C39_PermissiveCached ==
    [][\A t \in Tasks :
        entry[t] = "robots" =>
            /\ (/\ pc[t] \in {"idle", "robots_lock_wait"}
                /\ pc'[t] \notin {pc[t], "cancelled"}
                /\ PermissiveCached(dom'[t])) =>
                    /\ pc'[t] = "done"
                    /\ result'[t].body = Permissive
                    /\ robotsFetches' = robotsFetches
                    /\ Len(robotsCache') = Len(robotsCache)
                    /\ robotsCache'[Len(robotsCache')] =
                            [domain |-> dom'[t], parser |-> Permissive]
            /\ (pc[t] \in RobotsRequestStates /\ pc'[t] = "done") =>
                    /\ Len(robotsCache') \in 1..ROBOTS_TXT_CACHE_SIZE
                    /\ robotsCache'[Len(robotsCache')] =
                            [domain |-> dom[t], parser |-> result'[t].body]
                    /\ Len(robotsCache) >= ROBOTS_TXT_CACHE_SIZE =>
                            /\ robotsCache[1].domain \notin CachedDomains'
                            /\ Len(robotsCache') = ROBOTS_TXT_CACHE_SIZE
                    /\ Len(robotsCache) < ROBOTS_TXT_CACHE_SIZE =>
                            Len(robotsCache') = Len(robotsCache) + 1
      ]_vars

\* all three domains have been fetched once and stored, nobody was
\* cancelled, the oldest entry was evicted, the full cache holds two
\* permissive entries, and a lookup that made no request
\* has just answered permissive for the most recently used one
C39_Witness ==
    /\ \A t \in Tasks : pc[t] # "cancelled"
    /\ \A d \in Domains : robotsFetches[d] = 1 /\ RobotsFetchers(d) = {}
    /\ Len(robotsCache) = ROBOTS_TXT_CACHE_SIZE
    /\ \A i \in 1..Len(robotsCache) : robotsCache[i].parser = Permissive
    /\ \E t \in Tasks :
            /\ entry[t] = "robots" /\ pc[t] = "done"
            /\ httpsStatus[t] = None
            /\ result[t].body = Permissive
            /\ robotsCache[Len(robotsCache)].domain = dom[t]
            /\ insertOrder[Len(insertOrder)] # dom[t]

\* ------------------------------------------------------------------ C40
\* C40: close() running beside robots lookups keeps the fetches of a domain
\* single-flight: whether or not close() has cleared the table of fetch
\* locks, no domain ever has two requests for its robots.txt in progress.
C40_CloseKeepsSingleFlight ==
    \A d \in Domains :
        \A t, u \in Tasks :
            (/\ dom[t] = d /\ pc[t] \in RobotsRequestStates
             /\ dom[u] = d /\ pc[u] \in RobotsRequestStates) => t = u
====
